---- MODULE Spec2Model ----
(***************************************************************************)
(* A model of text_to_gds.py: the GDS cell-name generator, the glyph and   *)
(* digit-string cell builders, the row compiler and the part loop of       *)
(* main().  Characters are one-character strings, Python strings are       *)
(* sequences of characters, a gdstk.Cell is a record and a gdstk.Reference *)
(* points at its cell by the cell's identity <<part, index in lib>>.       *)
(***************************************************************************)
EXTENDS Integers, Sequences, FiniteSets, TLC

\* ------------------------------------------------------------------ bounds
\* Longest input file, in lines.
MaxLines == 2
\* Largest --rows value tried.
MaxRows == 2
\* Largest --rows-per-file value tried.
MaxRowsPerFile == 2
\* Largest --prebuilt-digits-len value tried with the part-loop inputs.
MaxDigitsLen == 1
\* Largest --prebuilt-digits-len value tried with the one-row inputs.
MaxRowDigitsLen == 2
\* Longest line of the one-row inputs.
MaxRowLen == 4
\* Longest name the name-generator inputs start from.
MaxNameLen == 2
\* The calls made of each of the two name generators that are compared: the
\* names up to the second one after "ZZ".
MaxCalls == 963
\* Longest input of the bit packer, in bytes, and its largest chunk size.
MaxPackLen == 9
MaxChunkSize == 3
\* The grid of format_into_grid.py, scaled down: digits per block row, rows
\* per block, and blocks per grid row and per grid column.
BLOCK_SIZE_X == 1
BLOCK_SIZE_Y == 2
BLOCK_COUNT_X == 2
BLOCK_COUNT_Y == 2
\* Longest digit file and largest max_rows given to process_file.
MaxGridFileLen == 4
MaxGridRows == 3
\* The block of block_scores.py, scaled down: bytes per block.
BLOCK_BYTES == 1
\* Longest bit-packed file, in bytes, and largest number of blocks requested.
MaxScoreFileLen == 3
MaxBlocks == 3

\* ------------------------------------------------------- program constants
\* argparse's default for --rows and --rows-per-file (Python None); every
\* configured limit of the model is >= 0, so -1 stands for None.
None == -1
\* --pixel-size default
PixelSize == 1

DIGITS == <<"0", "1", "2", "3", "4", "5", "6", "7", "8", "9">>

LETTERS ==
  <<"A", "B", "C", "D", "E", "F", "G", "H", "I", "J", "K", "L", "M",
    "N", "O", "P", "Q", "R", "S", "T", "U", "V", "W", "X", "Y", "Z">>

\* _GDS_NAME_CHARS: 0-9, A-Z
GDS_NAME_CHARS == DIGITS \o LETTERS

TOP_CELL == <<"T", "O", "P", "_", "C", "E", "L", "L">>

\* The position of every character of _GDS_NAME_CHARS in the tuple.
NameCharIndex ==
  [c \in {GDS_NAME_CHARS[i] : i \in DOMAIN GDS_NAME_CHARS} |->
     CHOOSE i \in DOMAIN GDS_NAME_CHARS : GDS_NAME_CHARS[i] = c]

\* tuple.index(c)
IndexOf(c) == NameCharIndex[c]

\* begining[:-1]
DropLast(str) == SubSeq(str, 1, Len(str) - 1)

\* s[n:]
DropFirst(str, n) == SubSeq(str, n + 1, Len(str))

\* s[:n]
Take(str, n) == SubSeq(str, 1, IF n < Len(str) THEN n ELSE Len(str))

\* ---------------------------------------------------------- next_cell_name
RECURSIVE IncrementLoop(_, _)
IncrementLoop(begining, end) ==
  IF Len(begining) > 0
    THEN LET last_char_of_begining == begining[Len(begining)]
         IN IF IndexOf(last_char_of_begining) < Len(GDS_NAME_CHARS)
              THEN DropLast(begining)
                     \o <<GDS_NAME_CHARS[IndexOf(last_char_of_begining) + 1]>>
                     \o end
              ELSE IncrementLoop(DropLast(begining), <<"0">> \o end)
    ELSE <<"A">> \o end

\* Fault variant of increment_gds_name: when every character overflows, the
\* new leading character is "0" instead of "A".
RECURSIVE IncrementLoopDigitLead(_, _)
IncrementLoopDigitLead(begining, end) ==
  IF Len(begining) > 0
    THEN LET last_char_of_begining == begining[Len(begining)]
         IN IF IndexOf(last_char_of_begining) < Len(GDS_NAME_CHARS)
              THEN DropLast(begining)
                     \o <<GDS_NAME_CHARS[IndexOf(last_char_of_begining) + 1]>>
                     \o end
              ELSE IncrementLoopDigitLead(DropLast(begining), <<"0">> \o end)
    ELSE <<"0">> \o end

increment_gds_name_digit_lead(v) == IncrementLoopDigitLead(v, <<>>)

\* Fault variant of increment_gds_name: after the last name of a length the
\* sequence starts over at "A".
increment_gds_name_wrap(v) ==
  IF \A i \in DOMAIN v : v[i] = "Z" THEN <<"A">> ELSE IncrementLoop(v, <<>>)

increment_gds_name(v) == IncrementLoop(v, <<>>)

\* The value a fresh process starts from (hasattr test of next_cell_name).
InitialValue == <<"A">>

\* ------------------------------------------------------------ cells, dicts
\* A gdstk.Cell: its name, the number of polygons it holds and its
\* references in the order they were added.  kind records which call site
\* created the cell.
Cell(name, kind, polygons, references) ==
  [name |-> name, kind |-> kind, polygons |-> polygons, references |-> references]

\* gdstk.Reference(cell, origin=(x, y)); cell is the identity <<part, index>>
\* of the referenced cell object.
Reference(cell, x, y) == [cell |-> cell, origin |-> <<x, y>>]

\* An insertion-ordered Python dict with few keys: a sequence of <<key, value>>.
DictHas(d, k) == \E i \in DOMAIN d : d[i][1] = k

DictGet(d, k) == d[CHOOSE i \in DOMAIN d : d[i][1] = k][2]

DictPut(d, k, v) ==
  IF DictHas(d, k)
    THEN [i \in DOMAIN d |-> IF d[i][1] = k THEN <<k, v>> ELSE d[i]]
    ELSE Append(d, <<k, v>>)

\* A Python dict with many keys, never iterated: a function on its keys.
EmptyMap == <<>>

MapHas(m, k) == k \in DOMAIN m

MapPut(m, k, v) == (k :> v) @@ m

\* ------------------------------------------------------------------- fonts
\* A font file: the WxH header and, per glyph, its key and bitmap rows.
DigitGlyph(i) == [key |-> DIGITS[i], rows |-> << <<"X", ".">> >>]

DigitFont(n) ==
  [header_ok |-> TRUE, w_px |-> 2, h_px |-> 1, glyphs |-> [i \in 1..n |-> DigitGlyph(i)]]

\* All ten digits.
GoodFont == DigitFont(10)

\* The digit 9 is not declared.
NoNineFont == DigitFont(9)

\* The bitmap row of glyph "3" is one pixel short.
ShortRowFont ==
  [GoodFont EXCEPT !.glyphs[4] = [key |-> "3", rows |-> << <<"X">> >>]]

\* The first line is not WxH.
NoHeaderFont ==
  [header_ok |-> FALSE, w_px |-> 0, h_px |-> 0, glyphs |-> <<>>]

BadFonts == {NoNineFont, ShortRowFont, NoHeaderFont}

\* The references of one glyph cell: one per ON pixel, rows top to bottom,
\* pixels left to right; origin at the bottom-left.
GlyphRefs(rows, w_px, h_px, pixel_cell) ==
  LET at(k) == rows[((k - 1) \div w_px) + 1][((k - 1) % w_px) + 1]
      ref(k) == Reference(pixel_cell,
                          ((k - 1) % w_px) * PixelSize,
                          (h_px - 1 - ((k - 1) \div w_px)) * PixelSize)
      RECURSIVE collect(_)
      collect(k) ==
        IF k > w_px * h_px THEN <<>>
        ELSE (IF at(k) = "X" THEN <<ref(k)>> ELSE <<>>) \o collect(k + 1)
  IN collect(1)

\* The glyph loop of load_font_build_cells over the glyph entries left.
RECURSIVE LoadGlyphs(_, _, _, _)
LoadGlyphs(entries, f, p, st) ==
  IF entries = <<>> \/ ~st.ok THEN st
  ELSE LET e == Head(entries)
           bad == \/ Len(e.rows) < f.h_px
                  \/ \E r \in 1..f.h_px : Len(e.rows[r]) # f.w_px
           safe_name == increment_gds_name(st.value)
           cell == Cell(safe_name, "glyph", 0,
                        GlyphRefs(e.rows, f.w_px, f.h_px, <<p, 1>>))
       IN IF bad
            THEN [st EXCEPT !.ok = FALSE]
            ELSE \* the state after this entry (next), then the rest of the loop
                 CHOOSE r \in
                   {LoadGlyphs(Tail(entries), f, p, next) :
                      next \in {[ok |-> TRUE,
                                 value |-> safe_name,
                                 lib |-> Append(st.lib, cell),
                                 glyph_cells |-> DictPut(st.glyph_cells, e.key,
                                                         <<p, Len(st.lib) + 1>>)]}} :
                   TRUE

\* load_font_build_cells for part p with the generator at v: whether it
\* returned, the library, the glyph dict and the generator's value.
load_font_build_cells(f, p, v) ==
  IF ~f.header_ok
    THEN [ok |-> FALSE, value |-> v, lib |-> <<>>, glyph_cells |-> <<>>]
    ELSE LET pixel_cell_name == increment_gds_name(v)
         IN LoadGlyphs(f.glyphs, f, p,
              [ok |-> TRUE,
               value |-> pixel_cell_name,
               lib |-> <<Cell(pixel_cell_name, "pixel", 1, <<>>)>>,
               glyph_cells |-> <<>>])

\* merge_polygons_in_cell: the flattened references OR-ed into polygons (one
\* polygon for the adjacent pixels of these fonts, none for an empty glyph).
merge_polygons_in_cell(source_cell, new_cell_name) ==
  Cell(new_cell_name, "merged",
       IF source_cell.references = <<>> THEN 0 ELSE 1, <<>>)

\* merge_references_to_polygon_dict followed by main's lib.add of every
\* merged cell: one new name per glyph, in the dict's order.
RECURSIVE MergeLoop(_, _, _, _)
MergeLoop(k, source_cells, p, st) ==
  IF k > Len(source_cells) THEN st
  ELSE LET name == increment_gds_name(st.value)
           src == st.lib[source_cells[k][2][2]]
       IN \* the state after this cell (next), then the rest of the loop
          CHOOSE r \in
            {MergeLoop(k + 1, source_cells, p, next) :
               next \in {[value |-> name,
                          lib |-> Append(st.lib, merge_polygons_in_cell(src, name)),
                          merged |-> Append(st.merged,
                                            <<source_cells[k][1],
                                              <<p, Len(st.lib) + 1>> >>)]}} :
            TRUE

merge_references_to_polygon_dict(source_cells, l, p, v) ==
  MergeLoop(1, source_cells, p, [value |-> v, lib |-> l, merged |-> <<>>])

\* ------------------------------------------- build_digit_string_cells_map
\* str(i) for i >= 0
RECURSIVE Decimal(_)
Decimal(i) ==
  IF i < 10 THEN <<DIGITS[i + 1]>>
  ELSE Decimal(i \div 10) \o <<DIGITS[(i % 10) + 1]>>

\* Left-pad with "0" up to a minimum width.
RECURSIVE ZeroFill(_, _)
ZeroFill(str, width) ==
  IF Len(str) >= width THEN str ELSE ZeroFill(<<"0">> \o str, width)

\* Fault variant of FormatDigits: no zero padding.
FormatDigitsUnpadded(i, length) == Decimal(i)

\* f"{i:0{length}d}"
FormatDigits(i, length) == ZeroFill(Decimal(i), length)

\* Fault variant of DigitStringRefs: the digits are placed right to left.
DigitStringRefsReversed(str, glyph_cells, advance_x) ==
  [j \in 1..Len(str) |->
     Reference(DictGet(glyph_cells, str[j]), (Len(str) - j) * advance_x, 0)]

\* The references of the cell for digit string str, left to right.
DigitStringRefs(str, glyph_cells, advance_x) ==
  [j \in 1..Len(str) |->
     Reference(DictGet(glyph_cells, str[j]), (j - 1) * advance_x, 0)]

\* The number of cells built for a given length.
MaxValue(length) == 10 ^ length

\* The names the next n calls of next_cell_name return, in order (the calls
\* are split in halves to keep the evaluation shallow).
RECURSIVE NextNames(_, _)
NextNames(v, n) ==
  IF n = 0 THEN <<>>
  ELSE IF n = 1 THEN <<increment_gds_name(v)>>
  ELSE CHOOSE names \in
         {left \o NextNames(left[Len(left)], n - (n \div 2)) :
            left \in {NextNames(v, n \div 2)}} :
         TRUE

\* result[s] = cell for the iterations lo..hi of the loop; a later
\* assignment to the same key replaces an earlier one.
RECURSIVE DigitCellsMap(_, _, _, _, _)
DigitCellsMap(lo, hi, length, p, base) ==
  IF lo > hi THEN EmptyMap
  ELSE IF lo = hi THEN FormatDigits(lo, length) :> <<p, base + lo + 1>>
  ELSE LET mid == (lo + hi) \div 2
       IN DigitCellsMap(mid + 1, hi, length, p, base)
            @@ DigitCellsMap(lo, mid, length, p, base)

\* build_digit_string_cells_map on library l for part p with the generator
\* at v: iteration i names its cell with the (i+1)-th next name, adds it to
\* the library and stores it under f"{i:0{length}d}".
build_digit_string_cells_map(l, glyph_cells, advance_x, length, p, v) ==
  LET missing == {d \in 1..10 : ~DictHas(glyph_cells, DIGITS[d])}
      max_value == MaxValue(length)
      names == NextNames(v, max_value)
      cells == [k \in 1..max_value |->
                  Cell(names[k], "digits", 0,
                       DigitStringRefs(FormatDigits(k - 1, length),
                                       glyph_cells, advance_x))]
  IN IF missing # {}
       THEN [ok |-> FALSE, value |-> v, lib |-> l, result |-> EmptyMap]
       ELSE [ok |-> TRUE,
             value |-> IF max_value = 0 THEN v ELSE names[max_value],
             lib |-> l \o cells,
             result |-> DigitCellsMap(0, max_value - 1, length, p, Len(l))]

\* ------------------------------------------------------------------- main
\* Fault variant of _min_or_none: the second limit is ignored.
MinOrNoneFirst(a, b) == a

\* min of two limits, None standing for no limit
_min_or_none(a, b) ==
  IF a = None THEN b
  ELSE IF b = None THEN a
  ELSE IF a < b THEN a ELSE b

_sub_or_none(a, b) == IF b = None \/ a = None THEN None ELSE a - b

\* f"{part:03d}"
FormatPart(p) == ZeroFill(Decimal(p), 3)

\* Fault variant of OutPath: every part is written to args.out.
OutPathWithoutPart(rows_per_file, p) == <<"out.gds">>

\* The output path of a part: args.out itself, or base_partNNN.ext.
OutPath(rows_per_file, p) ==
  IF rows_per_file = None THEN <<"out.gds">>
  ELSE <<"out", "_part">> \o FormatPart(p) \o <<".gds">>

\* ------------------------------------------------------------------ inputs
\* Line bodies of the input files of the part-loop specification.
Bodies ==
  { <<>>,
    <<"1", "2", " ", "3">>,
    <<"1", "#">> }

NewlineTerminated(bodies) == [i \in DOMAIN bodies |-> bodies[i] \o <<"\n">>]

\* Input files: every line ends in "\n", except possibly a non-empty last one.
Texts ==
  LET bodies == UNION {[1..n -> Bodies] : n \in 0..MaxLines}
  IN {NewlineTerminated(b) : b \in bodies}
       \cup {[NewlineTerminated(b) EXCEPT ![Len(b)] = b[Len(b)]] :
               b \in {c \in bodies : Len(c) > 0 /\ c[Len(c)] # <<>>}}

Limits(max) == {None} \cup (0..max)

Args ==
  [rows : Limits(MaxRows),
   rows_per_file : Limits(MaxRowsPerFile),
   merge : BOOLEAN,
   prebuilt_digits_len : 0..MaxDigitsLen]

VARIABLES
  args,                         \* the parsed command line
  font,                         \* the font file's content
  text,                         \* the text file's lines
  fin,                          \* the lines of the text file not yet read
  value,                        \* next_cell_name.value
  part, total_rows, eof,        \* main's loop variables
  prebuilt_usage_counts,        \* key -> count, across all parts
  lib,                          \* the cells of the current part's library
  glyph_cells, active_glyph_cells, adv_x, adv_y,
  prebuilt_combined_cells_map,  \* digit string -> cell
  top,                          \* the TOP_CELL of the current part
  rows_to_process,              \* rows_limit of _stream_rows_to_writer
  y, row, line,                 \* locals of _stream_rows_to_writer
  row_cell, xx, s,              \* locals of row_to_cell
  rows_done,                    \* rows returned by _stream_rows_to_writer
  written,                      \* the write_gds calls made so far, in order
  error,                        \* the exception that ended main, if any
  summary,                      \* the usage summary main printed, if any
  pc,                           \* where main is
  test_names,                   \* test_next_cell_name.py: its generator
  bitpack,                      \* bitpack_ones.py: a stream_pack call
  grid,                         \* format_into_grid.py: a process_file call
  scores                        \* block_scores.py: a stream_block_scores call

vars ==
  <<args, font, text, fin, value, part, total_rows, eof, prebuilt_usage_counts,
    lib, glyph_cells, active_glyph_cells, adv_x, adv_y,
    prebuilt_combined_cells_map, top, rows_to_process, y, row, line, row_cell,
    xx, s, rows_done, written, error, summary, pc, test_names, bitpack, grid,
    scores>>

\* The state of the sibling scripts, which main never touches.
script_vars == <<test_names, bitpack, grid, scores>>

\* Nothing was printed about the usage.
NoSummary ==
  [printed |-> FALSE, total_prebuilt_placements |-> 0, nonzero_keys |-> 0,
   top_items |-> <<>>, bottom_items |-> <<>>]

\* A sibling script that is not running.
Idle == [pc |-> "idle"]

ScriptsIdle ==
  /\ test_names = Idle
  /\ bitpack = Idle
  /\ grid = Idle
  /\ scores = Idle

\* An exception is its type and its message; the message is the sequence of
\* the literal pieces of the f-string and the characters its values format to.
NoError == [type |-> "none", message |-> <<>>]

ValueError(message) == [type |-> "ValueError", message |-> message]

\* repr of a one-character string
Repr(ch) == <<"'", ch, "'">>

\* repr of a list of one-character strings
RECURSIVE ReprItems(_)
ReprItems(chars) ==
  IF chars = <<>> THEN <<>>
  ELSE IF Len(chars) = 1 THEN Repr(chars[1])
  ELSE Repr(chars[1]) \o <<", ">> \o ReprItems(Tail(chars))

ReprList(chars) == <<"[">> \o ReprItems(chars) \o <<"]">>

\* The ValueError load_font_build_cells raises for font f: the header test,
\* then the first glyph whose bitmap ends early or has a row of wrong length.
FontError(f) ==
  IF ~f.header_ok
    THEN ValueError(<<"First line must be WxH like '4x6'; got: ">>)
    ELSE LET bad(e) == \/ Len(e.rows) < f.h_px
                       \/ \E r \in 1..f.h_px : Len(e.rows[r]) # f.w_px
             first == CHOOSE i \in DOMAIN f.glyphs :
                        /\ bad(f.glyphs[i])
                        /\ \A j \in 1..(i - 1) : ~bad(f.glyphs[j])
             e == f.glyphs[first]
         IN IF Len(e.rows) < f.h_px
              THEN ValueError(<<"Unexpected EOF while reading bitmap for glyph ">>
                              \o Repr(e.key))
              ELSE LET r == CHOOSE k \in 1..f.h_px :
                              /\ Len(e.rows[k]) # f.w_px
                              /\ \A j \in 1..(k - 1) : Len(e.rows[j]) = f.w_px
                   IN ValueError(<<"Row length ">> \o Decimal(Len(e.rows[r]))
                                 \o <<" != width ">> \o Decimal(f.w_px)
                                 \o <<" for glyph ">> \o Repr(e.key) \o <<": ">>
                                 \o <<"'">> \o e.rows[r] \o <<"'">>)

\* The ValueError build_digit_string_cells_map raises for the digits that
\* the glyph dict lacks, in the order of "0123456789".
MissingDigitsError(cells) ==
  LET missing == SelectSeq(DIGITS, LAMBDA d : ~DictHas(cells, d))
  IN ValueError(<<"Missing glyphs for digits: ">> \o ReprList(missing))

\* The ValueError row_to_cell raises for a character without a glyph.
MissingGlyphError(ch) ==
  ValueError(<<"Missing glyph in font for character: ">> \o Repr(ch))

\* main before its while loop, for a given command line, font and text file.
Start(a, f, lines) ==
  /\ args = a
  /\ font = f
  /\ text = lines
  /\ fin = lines
  /\ value = InitialValue
  /\ part = 0
  /\ total_rows = 0
  /\ eof = FALSE
  /\ prebuilt_usage_counts = EmptyMap
  /\ lib = <<>>
  /\ glyph_cells = <<>>
  /\ active_glyph_cells = <<>>
  /\ adv_x = 0
  /\ adv_y = 0
  /\ prebuilt_combined_cells_map = EmptyMap
  /\ top = 0
  /\ rows_to_process = None
  /\ y = 0
  /\ row = 0
  /\ line = <<>>
  /\ row_cell = 0
  /\ xx = 0
  /\ s = <<>>
  /\ rows_done = 0
  /\ written = <<>>
  /\ error = NoError
  /\ summary = NoSummary
  /\ pc = "while"
  /\ ScriptsIdle

\* Every command line with every text and the good font, and with every bad
\* font (which stops the run before any line is read) and a one-line text.
Init ==
  \/ \E a \in Args, lines \in Texts : Start(a, GoodFont, lines)
  \/ \E a \in Args, f \in BadFonts : Start(a, f, << <<"1", "\n">> >>)

\* Fault variant of WhileEnter: the name generator restarts with each part.
WhileEnterResetNames ==
  /\ pc = "while"
  /\ ~eof /\ (args.rows = None \/ total_rows < args.rows)
  /\ part' = part + 1
  /\ lib' = <<>>
  /\ value' = InitialValue
  /\ pc' = "load_font"
  /\ UNCHANGED <<script_vars, summary, args, error, font, text, fin, total_rows, eof, prebuilt_usage_counts,
                 glyph_cells, active_glyph_cells, adv_x, adv_y,
                 prebuilt_combined_cells_map, top, rows_to_process, y, row,
                 row_cell, xx, s, rows_done, written, line>>

\* Fault variant of WhileEnter: the usage counters restart with each part.
WhileEnterResetCounts ==
  /\ pc = "while"
  /\ ~eof /\ (args.rows = None \/ total_rows < args.rows)
  /\ part' = part + 1
  /\ lib' = <<>>
  /\ prebuilt_usage_counts' = EmptyMap
  /\ pc' = "load_font"
  /\ UNCHANGED <<script_vars, summary, args, error, font, text, fin, value, total_rows, eof,
                 glyph_cells, active_glyph_cells, adv_x, adv_y,
                 prebuilt_combined_cells_map, top, rows_to_process, y, row,
                 row_cell, xx, s, rows_done, written, line>>

\* The while test holds: a new part and a new library.
WhileEnter ==
  /\ pc = "while"
  /\ ~eof /\ (args.rows = None \/ total_rows < args.rows)
  /\ part' = part + 1
  /\ lib' = <<>>
  /\ pc' = "load_font"
  /\ UNCHANGED <<script_vars, summary, args, error, font, text, fin, value, total_rows, eof, prebuilt_usage_counts,
                 glyph_cells, active_glyph_cells, adv_x, adv_y,
                 prebuilt_combined_cells_map, top, rows_to_process, y, row,
                 row_cell, xx, s, rows_done, written, line>>

\* ---------------------------------------------------------- usage summary
\* ord(c) of the characters of a dictionary key, which are digits.
Ord(c) == 47 + (CHOOSE i \in DOMAIN DIGITS : DIGITS[i] = c)

\* a < b on Python strings: by the first differing character, a proper
\* prefix being smaller.
StrLess(a, b) ==
  \E i \in 1..(Len(b)) :
    /\ \A j \in 1..(i - 1) : j <= Len(a) /\ a[j] = b[j]
    /\ (i > Len(a) \/ (i - 1 < Len(a) /\ Ord(a[i]) < Ord(b[i])))

\* a < b on the tuples (int, str) the sort keys are.
KeyLess(a, b) == a[1] < b[1] \/ (a[1] = b[1] /\ StrLess(a[2], b[2]))

\* prebuilt_usage_counts.items(): the (key, count) pairs.
Items(counts) == {<<k, counts[k]>> : k \in DOMAIN counts}

\* sorted(items, key=...), given each item with its sort key as <<key, item>>:
\* the items in ascending order of their sort keys.  The sort keys of
\* distinct items differ, so the order of the items in the dict does not
\* show in the result.
RECURSIVE sorted(_)
sorted(keyed) ==
  IF keyed = {} THEN <<>>
  ELSE LET first == CHOOSE e \in keyed :
                      \A other \in keyed : ~KeyLess(other[1], e[1])
       IN <<first[2]>> \o sorted(keyed \ {first})

\* Fault variant of top_key: the most-used list is sorted like the least-used
\* one.
top_key_ascending(kv) == <<kv[2], kv[1]>>

\* lambda kv: (-kv[1], kv[0])
top_key(kv) == <<0 - kv[2], kv[1]>>

\* lambda kv: (kv[1], kv[0])
bottom_key(kv) == <<kv[2], kv[1]>>

\* sum(prebuilt_usage_counts.values())
RECURSIVE SumValues(_)
SumValues(items) ==
  IF items = {} THEN 0
  ELSE LET kv == CHOOSE x \in items : TRUE IN kv[2] + SumValues(items \ {kv})

\* What main prints about the usage of the prebuilt strings.
UsageSummary(counts) ==
  IF DOMAIN counts = {} THEN NoSummary
  ELSE [printed |-> TRUE,
        total_prebuilt_placements |-> SumValues(Items(counts)),
        nonzero_keys |-> Cardinality(DOMAIN counts),
        top_items |-> Take(sorted({<<top_key(kv), kv>> : kv \in Items(counts)}), 10),
        bottom_items |-> Take(sorted({<<bottom_key(kv), kv>> : kv \in Items(counts)}), 10)]

\* Fault variant of WhileExit: the loop is left at the end of the input only,
\* not when the overall row limit is reached.
WhileExitAtEofOnly ==
  /\ pc = "while"
  /\ eof
  /\ pc' = "done"
  /\ summary' = UsageSummary(prebuilt_usage_counts)
  /\ UNCHANGED <<script_vars, args, error, font, text, fin, value, part, total_rows, eof,
                 prebuilt_usage_counts, lib, glyph_cells, active_glyph_cells,
                 adv_x, adv_y, prebuilt_combined_cells_map, top,
                 rows_to_process, y, row, row_cell, xx, s, rows_done, written, line>>

\* The while test fails: main prints its summary and returns.
WhileExit ==
  /\ pc = "while"
  /\ ~(~eof /\ (args.rows = None \/ total_rows < args.rows))
  /\ pc' = "done"
  /\ summary' = UsageSummary(prebuilt_usage_counts)
  /\ UNCHANGED <<script_vars, args, error, font, text, fin, value, part, total_rows, eof,
                 prebuilt_usage_counts, lib, glyph_cells, active_glyph_cells,
                 adv_x, adv_y, prebuilt_combined_cells_map, top,
                 rows_to_process, y, row, row_cell, xx, s, rows_done, written, line>>

\* Fault variant of LoadFont: the font is loaded for the first part only and
\* later parts keep the glyph cells of the first.
LoadFontOncePerRun ==
  /\ pc = "load_font"
  /\ IF part = 1
       THEN \E r \in {load_font_build_cells(font, part, value)} :
              /\ r.ok
              /\ value' = r.value
              /\ lib' = r.lib
              /\ glyph_cells' = r.glyph_cells
              /\ adv_x' = font.w_px * PixelSize
              /\ adv_y' = font.h_px * PixelSize
       ELSE UNCHANGED <<value, lib, glyph_cells, adv_x, adv_y>>
  /\ pc' = "merge"
  /\ UNCHANGED <<script_vars, summary, args, error, font, text, fin, part, total_rows, eof,
                 prebuilt_usage_counts, active_glyph_cells,
                 prebuilt_combined_cells_map, top, rows_to_process, y, row,
                 row_cell, xx, s, rows_done, written, line>>

\* load_font_build_cells returns the glyph cells.
LoadFont ==
  /\ pc = "load_font"
  /\ \E r \in {load_font_build_cells(font, part, value)} :
        /\ r.ok
        /\ value' = r.value
        /\ lib' = r.lib
        /\ glyph_cells' = r.glyph_cells
        /\ adv_x' = font.w_px * PixelSize
        /\ adv_y' = font.h_px * PixelSize
  /\ pc' = "merge"
  /\ UNCHANGED <<script_vars, summary, args, error, font, text, fin, part, total_rows, eof, prebuilt_usage_counts,
                 active_glyph_cells, prebuilt_combined_cells_map, top,
                 rows_to_process, y, row, row_cell, xx, s, rows_done, written, line>>

\* load_font_build_cells raises ValueError; main does not catch it.
LoadFontError ==
  /\ pc = "load_font"
  /\ \E r \in {load_font_build_cells(font, part, value)} :
        /\ ~r.ok
        /\ value' = r.value
        /\ lib' = r.lib
  /\ error' = FontError(font)
  /\ pc' = "failed"
  /\ UNCHANGED <<script_vars, summary, args, font, text, fin, part, total_rows, eof, prebuilt_usage_counts,
                 glyph_cells, active_glyph_cells, adv_x, adv_y,
                 prebuilt_combined_cells_map, top, rows_to_process, y, row,
                 row_cell, xx, s, rows_done, written, line>>

\* Choose the glyph set: merged copies with --merge, the glyph cells without.
ChooseGlyphs ==
  /\ pc = "merge"
  /\ IF args.merge
       THEN \E r \in {merge_references_to_polygon_dict(glyph_cells, lib, part,
                                                        value)} :
               /\ value' = r.value
               /\ lib' = r.lib
               /\ active_glyph_cells' = r.merged
       ELSE /\ active_glyph_cells' = glyph_cells
            /\ UNCHANGED <<value, lib>>
  /\ pc' = "digits"
  /\ UNCHANGED <<script_vars, summary, args, error, font, text, fin, part, total_rows, eof, prebuilt_usage_counts,
                 glyph_cells, adv_x, adv_y, prebuilt_combined_cells_map, top,
                 rows_to_process, y, row, row_cell, xx, s, rows_done, written, line>>

\* build_digit_string_cells_map returns the prebuilt cells.
BuildDigits ==
  /\ pc = "digits"
  /\ \E r \in {build_digit_string_cells_map(lib, active_glyph_cells, adv_x,
                                              args.prebuilt_digits_len, part,
                                              value)} :
        /\ r.ok
        /\ value' = r.value
        /\ lib' = r.lib
        /\ prebuilt_combined_cells_map' = r.result
  /\ pc' = "top"
  /\ UNCHANGED <<script_vars, summary, args, error, font, text, fin, part, total_rows, eof, prebuilt_usage_counts,
                 glyph_cells, active_glyph_cells, adv_x, adv_y, top,
                 rows_to_process, y, row, row_cell, xx, s, rows_done, written, line>>

\* Fault variant of BuildDigitsError: the digits are tested inside the loop,
\* after the first cell has been named and created.
BuildDigitsErrorAfterFirstCell ==
  /\ pc = "digits"
  /\ \E r \in {build_digit_string_cells_map(lib, active_glyph_cells, adv_x,
                                              args.prebuilt_digits_len, part,
                                              value)} :
        ~r.ok
  /\ value' = increment_gds_name(value)
  /\ lib' = Append(lib, Cell(increment_gds_name(value), "digits", 0, <<>>))
  /\ error' = MissingDigitsError(active_glyph_cells)
  /\ pc' = "failed"
  /\ UNCHANGED <<script_vars, summary, args, font, text, fin, part, total_rows, eof,
                 prebuilt_usage_counts, glyph_cells, active_glyph_cells,
                 adv_x, adv_y, prebuilt_combined_cells_map, top,
                 rows_to_process, y, row, row_cell, xx, s, rows_done, written, line>>

\* build_digit_string_cells_map raises ValueError for the missing digits.
BuildDigitsError ==
  /\ pc = "digits"
  /\ \E r \in {build_digit_string_cells_map(lib, active_glyph_cells, adv_x,
                                              args.prebuilt_digits_len, part,
                                              value)} :
        ~r.ok
  /\ error' = MissingDigitsError(active_glyph_cells)
  /\ pc' = "failed"
  /\ UNCHANGED <<script_vars, summary, args, font, text, fin, value, part, total_rows, eof,
                 prebuilt_usage_counts, lib, glyph_cells, active_glyph_cells,
                 adv_x, adv_y, prebuilt_combined_cells_map, top,
                 rows_to_process, y, row, row_cell, xx, s, rows_done, written, line>>

\* Fault variant of NewTop: the row offsets start at 0 in every part.
NewTopRestartsOffsets ==
  /\ pc = "top"
  /\ lib' = Append(lib, Cell(TOP_CELL, "top", 0, <<>>))
  /\ top' = Len(lib) + 1
  /\ rows_to_process' =
       _min_or_none(args.rows_per_file, _sub_or_none(args.rows, total_rows))
  /\ y' = 0
  /\ row' = 0
  /\ pc' = "for_line"
  /\ UNCHANGED <<script_vars, summary, args, error, font, text, fin, value, part, total_rows, eof,
                 prebuilt_usage_counts, glyph_cells, active_glyph_cells, adv_x,
                 adv_y, prebuilt_combined_cells_map, row_cell, xx, s, rows_done,
                 written, line>>

\* lib.new_cell("TOP_CELL"), rows_to_process, and the entry of
\* _stream_rows_to_writer with starting_row = total_rows.
NewTop ==
  /\ pc = "top"
  /\ lib' = Append(lib, Cell(TOP_CELL, "top", 0, <<>>))
  /\ top' = Len(lib) + 1
  /\ rows_to_process' =
       _min_or_none(args.rows_per_file, _sub_or_none(args.rows, total_rows))
  /\ y' = (0 - total_rows) * adv_y
  /\ row' = 0
  /\ pc' = "for_line"
  /\ UNCHANGED <<script_vars, summary, args, error, font, text, fin, value, part, total_rows, eof,
                 prebuilt_usage_counts, glyph_cells, active_glyph_cells, adv_x,
                 adv_y, prebuilt_combined_cells_map, row_cell, xx, s, rows_done,
                 written, line>>

\* cell.add(reference) on the cell at index i of the library
AddReference(l, i, ref) ==
  [l EXCEPT ![i].references = Append(@, ref)]

\* line[:-1] when the line ends with "\n"
StripNewline(raw) ==
  IF Len(raw) > 0 /\ raw[Len(raw)] = "\n" THEN DropLast(raw) ELSE raw

\* The for loop takes the next line; row_to_cell creates the row cell.
ReadLine ==
  /\ pc = "for_line"
  /\ fin # <<>>
  /\ fin' = Tail(fin)
  /\ value' = increment_gds_name(value)
  /\ lib' = Append(lib, Cell(value', "row", 0, <<>>))
  /\ row_cell' = Len(lib) + 1
  /\ xx' = 0
  /\ line' = StripNewline(Head(fin))
  /\ s' = line'
  /\ pc' = "row_to_cell"
  /\ UNCHANGED <<script_vars, summary, args, error, font, text, part, total_rows, eof, prebuilt_usage_counts,
                 glyph_cells, active_glyph_cells, adv_x, adv_y,
                 prebuilt_combined_cells_map, top, rows_to_process, y, row,
                 rows_done, written>>

\* Fault variant of MatchKey: at least one character is taken.
MatchKeyAtLeastOne ==
  Take(s, IF args.prebuilt_digits_len = 0 THEN 1 ELSE args.prebuilt_digits_len)

\* s[:combined_string_length]
MatchKey == Take(s, args.prebuilt_digits_len)

\* combined_cells_map.get(match_key) is not None
Matches(key) == MapHas(prebuilt_combined_cells_map, key)

\* combined_usage_counts[match_key] += 1 on a defaultdict(int)
CountUse(counts, key) ==
  MapPut(counts, key, (IF MapHas(counts, key) THEN counts[key] ELSE 0) + 1)

\* Fault variant of RowMatch: after a match only one character is skipped, so
\* the next match overlaps it.
RowMatchOverlapping ==
  /\ pc = "row_to_cell"
  /\ Len(s) > 0
  /\ Matches(MatchKey)
  /\ lib' = AddReference(lib, row_cell,
                         Reference(prebuilt_combined_cells_map[MatchKey], xx, 0))
  /\ prebuilt_usage_counts' = CountUse(prebuilt_usage_counts, MatchKey)
  /\ xx' = xx + adv_x
  /\ s' = DropFirst(s, 1)
  /\ UNCHANGED <<script_vars, summary, args, error, font, text, fin, value, part, total_rows, eof, glyph_cells,
                 active_glyph_cells, adv_x, adv_y, prebuilt_combined_cells_map,
                 top, rows_to_process, y, row, row_cell, rows_done, written, pc, line>>

\* Fault variant of RowMatch: the cursor advances by one character width.
RowMatchAdvanceOne ==
  /\ pc = "row_to_cell"
  /\ Len(s) > 0
  /\ Matches(MatchKey)
  /\ lib' = AddReference(lib, row_cell,
                         Reference(prebuilt_combined_cells_map[MatchKey], xx, 0))
  /\ prebuilt_usage_counts' = CountUse(prebuilt_usage_counts, MatchKey)
  /\ xx' = xx + adv_x
  /\ s' = DropFirst(s, args.prebuilt_digits_len)
  /\ UNCHANGED <<script_vars, summary, args, error, font, text, fin, value, part, total_rows, eof, glyph_cells,
                 active_glyph_cells, adv_x, adv_y, prebuilt_combined_cells_map,
                 top, rows_to_process, y, row, row_cell, rows_done, written, pc, line>>

\* The prebuilt cell of the next digits is referenced and the digits skipped.
RowMatch ==
  /\ pc = "row_to_cell"
  /\ Len(s) > 0
  /\ Matches(MatchKey)
  /\ lib' = AddReference(lib, row_cell,
                         Reference(prebuilt_combined_cells_map[MatchKey], xx, 0))
  /\ prebuilt_usage_counts' = CountUse(prebuilt_usage_counts, MatchKey)
  /\ xx' = xx + adv_x * args.prebuilt_digits_len
  /\ s' = DropFirst(s, args.prebuilt_digits_len)
  /\ UNCHANGED <<script_vars, summary, args, error, font, text, fin, value, part, total_rows, eof, glyph_cells,
                 active_glyph_cells, adv_x, adv_y, prebuilt_combined_cells_map,
                 top, rows_to_process, y, row, row_cell, rows_done, written, pc, line>>

\* Fault variant of RowSpace: the row limit is also tested after a space, in
\* the middle of a row, and the rest of the row is dropped.
RowSpaceChecksLimit ==
  /\ pc = "row_to_cell"
  /\ Len(s) > 0
  /\ ~Matches(MatchKey)
  /\ s[1] = " "
  /\ xx' = xx + adv_x
  /\ s' = DropFirst(s, 1)
  /\ IF rows_to_process # None /\ row + 1 >= rows_to_process
       THEN /\ rows_done' = row
            /\ eof' = FALSE
            /\ pc' = "write"
       ELSE UNCHANGED <<rows_done, eof, pc>>
  /\ UNCHANGED <<script_vars, summary, args, error, font, text, fin, value, part, total_rows,
                 prebuilt_usage_counts, lib, glyph_cells, active_glyph_cells,
                 adv_x, adv_y, prebuilt_combined_cells_map, top,
                 rows_to_process, y, row, row_cell, written, line>>

\* Fallback, a space: only the cursor moves.
RowSpace ==
  /\ pc = "row_to_cell"
  /\ Len(s) > 0
  /\ ~Matches(MatchKey)
  /\ s[1] = " "
  /\ xx' = xx + adv_x
  /\ s' = DropFirst(s, 1)
  /\ UNCHANGED <<script_vars, summary, args, error, font, text, fin, value, part, total_rows, eof,
                 prebuilt_usage_counts, lib, glyph_cells, active_glyph_cells,
                 adv_x, adv_y, prebuilt_combined_cells_map, top,
                 rows_to_process, y, row, row_cell, rows_done, written, pc, line>>

\* Fault variant of RowGlyph: the row cell references the top cell instead of
\* the glyph cell.
RowGlyphReferencesTop ==
  /\ pc = "row_to_cell"
  /\ Len(s) > 0
  /\ ~Matches(MatchKey)
  /\ s[1] # " "
  /\ DictHas(active_glyph_cells, s[1])
  /\ lib' = AddReference(lib, row_cell, Reference(<<part, top>>, xx, 0))
  /\ xx' = xx + adv_x
  /\ s' = DropFirst(s, 1)
  /\ UNCHANGED <<script_vars, summary, args, error, font, text, fin, value, part, total_rows, eof,
                 prebuilt_usage_counts, glyph_cells, active_glyph_cells, adv_x,
                 adv_y, prebuilt_combined_cells_map, top, rows_to_process, y,
                 row, row_cell, rows_done, written, pc, line>>

\* Fallback, a character with a glyph: its glyph cell is referenced.
RowGlyph ==
  /\ pc = "row_to_cell"
  /\ Len(s) > 0
  /\ ~Matches(MatchKey)
  /\ s[1] # " "
  /\ DictHas(active_glyph_cells, s[1])
  /\ lib' = AddReference(lib, row_cell,
                         Reference(DictGet(active_glyph_cells, s[1]), xx, 0))
  /\ xx' = xx + adv_x
  /\ s' = DropFirst(s, 1)
  /\ UNCHANGED <<script_vars, summary, args, error, font, text, fin, value, part, total_rows, eof,
                 prebuilt_usage_counts, glyph_cells, active_glyph_cells, adv_x,
                 adv_y, prebuilt_combined_cells_map, top, rows_to_process, y,
                 row, row_cell, rows_done, written, pc, line>>

\* Fault variant of RowMissingGlyph: the library built so far is written
\* before the error leaves main.
RowMissingGlyphFlushes ==
  /\ pc = "row_to_cell"
  /\ Len(s) > 0
  /\ ~Matches(MatchKey)
  /\ s[1] # " "
  /\ ~DictHas(active_glyph_cells, s[1])
  /\ written' = Append(written,
                       [path |-> OutPath(args.rows_per_file, part), part |-> part,
                        rows |-> Len(lib[top].references), cells |-> Len(lib),
                        first_name |-> lib[1].name, last_name |-> value,
                        dict_refs |-> EmptyMap, glyph_refs |-> 0])
  /\ error' = MissingGlyphError(s[1])
  /\ pc' = "failed"
  /\ UNCHANGED <<script_vars, summary, args, font, text, fin, value, part, total_rows, eof,
                 prebuilt_usage_counts, lib, glyph_cells, active_glyph_cells,
                 adv_x, adv_y, prebuilt_combined_cells_map, top,
                 rows_to_process, y, row, row_cell, xx, s, rows_done, line>>

\* Fallback, a character without a glyph: ValueError, which main does not catch.
RowMissingGlyph ==
  /\ pc = "row_to_cell"
  /\ Len(s) > 0
  /\ ~Matches(MatchKey)
  /\ s[1] # " "
  /\ ~DictHas(active_glyph_cells, s[1])
  /\ error' = MissingGlyphError(s[1])
  /\ pc' = "failed"
  /\ UNCHANGED <<script_vars, summary, args, font, text, fin, value, part, total_rows, eof,
                 prebuilt_usage_counts, lib, glyph_cells, active_glyph_cells,
                 adv_x, adv_y, prebuilt_combined_cells_map, top,
                 rows_to_process, y, row, row_cell, xx, s, rows_done, written, line>>

\* Fault variant of RowEnd: the row limit is tested with > instead of >=.
RowEndLimitOffByOne ==
  /\ pc = "row_to_cell"
  /\ Len(s) = 0
  /\ lib' = AddReference(lib, top, Reference(<<part, row_cell>>, 0, y))
  /\ y' = y - adv_y
  /\ row' = row + 1
  /\ IF rows_to_process # None /\ row' > rows_to_process
       THEN /\ rows_done' = row'
            /\ eof' = FALSE
            /\ pc' = "write"
       ELSE /\ pc' = "for_line"
            /\ UNCHANGED <<rows_done, eof>>
  /\ UNCHANGED <<script_vars, summary, args, error, font, text, fin, value, part, total_rows,
                 prebuilt_usage_counts, glyph_cells, active_glyph_cells, adv_x,
                 adv_y, prebuilt_combined_cells_map, top, rows_to_process,
                 row_cell, xx, s, written, line>>

\* row_to_cell returns: the row is referenced from the top cell, and the row
\* limit is tested.
RowEnd ==
  /\ pc = "row_to_cell"
  /\ Len(s) = 0
  /\ lib' = AddReference(lib, top, Reference(<<part, row_cell>>, 0, y))
  /\ y' = y - adv_y
  /\ row' = row + 1
  /\ IF rows_to_process # None /\ row' >= rows_to_process
       THEN /\ rows_done' = row'
            /\ eof' = FALSE
            /\ pc' = "write"
       ELSE /\ pc' = "for_line"
            /\ UNCHANGED <<rows_done, eof>>
  /\ UNCHANGED <<script_vars, summary, args, error, font, text, fin, value, part, total_rows,
                 prebuilt_usage_counts, glyph_cells, active_glyph_cells, adv_x,
                 adv_y, prebuilt_combined_cells_map, top, rows_to_process,
                 row_cell, xx, s, written, line>>

\* The for loop finds no further line: _stream_rows_to_writer returns (row, True).
StreamEOF ==
  /\ pc = "for_line"
  /\ fin = <<>>
  /\ rows_done' = row
  /\ eof' = TRUE
  /\ pc' = "write"
  /\ UNCHANGED <<script_vars, summary, args, error, font, text, fin, value, part, total_rows,
                 prebuilt_usage_counts, lib, glyph_cells, active_glyph_cells,
                 adv_x, adv_y, prebuilt_combined_cells_map, top,
                 rows_to_process, y, row, row_cell, xx, s, written, line>>

\* The name of the cell created last by the name generator in library l.
\* TOP_CELL, the one cell of a library named without the generator, is
\* followed by row cells only.
LastGenerated(l) ==
  IF l[Len(l)].kind = "top" THEN l[Len(l) - 1].name ELSE l[Len(l)].name

\* The references held by the row cells of library l, as <<cell index,
\* position in the cell's reference list>>.
RowRefs(l) ==
  UNION {{<<i, j>> : j \in DOMAIN l[i].references} :
           i \in {k \in DOMAIN l : l[k].kind = "row"}}

\* The cell a row reference of library l points at.
RefTarget(l, ij) == l[ij[1]].references[ij[2]].cell

\* How many row references of library l point at cell c.
RefCount(l, c) == Cardinality({ij \in RowRefs(l) : RefTarget(l, ij) = c})

\* How many row references of library l point at glyph cells.
GlyphRefCount(l) ==
  Cardinality({ij \in RowRefs(l) :
                 l[RefTarget(l, ij)[2]].kind \in {"glyph", "merged"}})

\* What one lib.write_gds(out_path) call wrote: the path, the rows under the
\* top cell, the number of cells, the first and the last generated name, and
\* how often the rows reference each prebuilt cell and the glyph cells.
Artifact(path, p, l, t, m) ==
  [path |-> path, part |-> p, rows |-> Len(l[t].references),
   cells |-> Len(l), first_name |-> l[1].name, last_name |-> LastGenerated(l),
   dict_refs |-> LET targets == {RefTarget(l, ij) : ij \in RowRefs(l)}
                 IN [k \in {key \in DOMAIN m : m[key] \in targets} |->
                       RefCount(l, m[k])],
   glyph_refs |-> GlyphRefCount(l)]

\* Fault variant of WritePart: a part without rows is not written.
WritePartSkipsEmpty ==
  /\ pc = "write"
  /\ written' = IF rows_done = 0 THEN written
                ELSE Append(written,
                            Artifact(OutPath(args.rows_per_file, part), part, lib,
                                     top, prebuilt_combined_cells_map))
  /\ total_rows' = total_rows + rows_done
  /\ pc' = "while"
  /\ UNCHANGED <<script_vars, summary, args, error, font, text, fin, value, part, eof,
                 prebuilt_usage_counts, lib, glyph_cells, active_glyph_cells,
                 adv_x, adv_y, prebuilt_combined_cells_map, top,
                 rows_to_process, y, row, row_cell, xx, s, rows_done, line>>

\* lib.write_gds(out_path), then total_rows += rows_done.
WritePart ==
  /\ pc = "write"
  /\ written' = Append(written,
                       Artifact(OutPath(args.rows_per_file, part), part, lib, top,
                                prebuilt_combined_cells_map))
  /\ total_rows' = total_rows + rows_done
  /\ pc' = "while"
  /\ UNCHANGED <<script_vars, summary, args, error, font, text, fin, value, part, eof, prebuilt_usage_counts, lib,
                 glyph_cells, active_glyph_cells, adv_x, adv_y,
                 prebuilt_combined_cells_map, top, rows_to_process, y, row,
                 row_cell, xx, s, rows_done, line>>

Next ==
  \/ WhileEnter
  \/ WhileExit
  \/ LoadFont
  \/ LoadFontError
  \/ ChooseGlyphs
  \/ BuildDigits
  \/ BuildDigitsError
  \/ NewTop
  \/ ReadLine
  \/ RowMatch
  \/ RowSpace
  \/ RowGlyph
  \/ RowMissingGlyph
  \/ RowEnd
  \/ StreamEOF
  \/ WritePart

Spec == Init /\ [][Next]_vars

\* The command lines of the runs whose termination is examined: every pair
\* of row limits, with the dictionary absent or of single digits (its
\* length plays no part in the control flow of the part loop).
ArgsLive ==
  [rows : Limits(MaxRows),
   rows_per_file : Limits(MaxRowsPerFile),
   merge : BOOLEAN,
   prebuilt_digits_len : {0, 1}]

InitLive ==
  \/ \E a \in ArgsLive, lines \in Texts : Start(a, GoodFont, lines)
  \/ \E a \in ArgsLive, f \in BadFonts : Start(a, f, << <<"1", "\n">> >>)

\* main is one sequential process that nothing suspends: whenever it has a
\* next step, it takes it.
SpecLive == InitLive /\ [][Next]_vars /\ WF_vars(Next)

\* ------------------------------------------------- one-row specification
\* The runs of main on a one-line text file, for every line over a small
\* alphabet of characters the font can place (digits and the space), and
\* for the lines that end, after a short prefix, in a character the font
\* does not declare: row_to_cell raises at the first such character, so
\* nothing after it is read.
RowAlphabet == {"0", "1", " "}

PlaceableLines(n) == UNION {[1..m -> RowAlphabet] : m \in 0..n}

MissingGlyphLines == {Append(prefix, "#") : prefix \in PlaceableLines(2)}

RowLines == PlaceableLines(MaxRowLen) \cup MissingGlyphLines

InitRow ==
  \E len \in 0..MaxRowDigitsLen, body \in RowLines :
    Start([rows |-> None, rows_per_file |-> None, merge |-> FALSE,
           prebuilt_digits_len |-> len],
          GoodFont, <<body \o <<"\n">> >>)

\* With the good font neither font error can occur.
NextRow ==
  \/ WhileEnter
  \/ WhileExit
  \/ LoadFont
  \/ ChooseGlyphs
  \/ BuildDigits
  \/ NewTop
  \/ ReadLine
  \/ RowMatch
  \/ RowSpace
  \/ RowGlyph
  \/ RowMissingGlyph
  \/ RowEnd
  \/ StreamEOF
  \/ WritePart

SpecRow == InitRow /\ [][NextRow]_vars

\* ------------------------------------------- name-generator specification
\* The calls of next_cell_name alone, from every value the generator can
\* hold: the initial "A" and every name it returns (a letter followed by
\* letters or digits), up to a length.
LegalNames(n) ==
  UNION {{<<LETTERS[l]>> \o rest :
            l \in DOMAIN LETTERS,
            rest \in [1..(m - 1) -> {GDS_NAME_CHARS[i] : i \in DOMAIN GDS_NAME_CHARS}]} :
          m \in 1..n}

InitNames ==
  /\ value \in LegalNames(MaxNameLen)
  /\ args = [rows |-> None, rows_per_file |-> None, merge |-> FALSE,
             prebuilt_digits_len |-> 0]
  /\ font = GoodFont
  /\ text = <<>>
  /\ fin = <<>>
  /\ part = 0
  /\ total_rows = 0
  /\ eof = FALSE
  /\ prebuilt_usage_counts = EmptyMap
  /\ lib = <<>>
  /\ glyph_cells = <<>>
  /\ active_glyph_cells = <<>>
  /\ adv_x = 0
  /\ adv_y = 0
  /\ prebuilt_combined_cells_map = EmptyMap
  /\ top = 0
  /\ rows_to_process = None
  /\ y = 0
  /\ row = 0
  /\ line = <<>>
  /\ row_cell = 0
  /\ xx = 0
  /\ s = <<>>
  /\ rows_done = 0
  /\ written = <<>>
  /\ error = NoError
  /\ summary = NoSummary
  /\ pc = "next_cell_name"
  /\ ScriptsIdle

\* One call of next_cell_name: the value is incremented and returned.
next_cell_name ==
  /\ pc = "next_cell_name"
  /\ Len(value) <= MaxNameLen
  /\ value' = increment_gds_name(value)
  /\ UNCHANGED <<script_vars, summary, args, error, font, text, fin, part, total_rows, eof,
                 prebuilt_usage_counts, lib, glyph_cells, active_glyph_cells,
                 adv_x, adv_y, prebuilt_combined_cells_map, top,
                 rows_to_process, y, row, row_cell, xx, s, rows_done, written,
                 pc, line>>

NextName == next_cell_name

SpecNames == InitNames /\ [][NextName]_vars

\* ------------------------------------------------ test_next_cell_name.py
\* main's variables while a sibling script runs on its own.
MainIdle ==
  /\ args = [rows |-> None, rows_per_file |-> None, merge |-> FALSE,
             prebuilt_digits_len |-> 0]
  /\ font = GoodFont
  /\ text = <<>>
  /\ fin = <<>>
  /\ value = InitialValue
  /\ part = 0
  /\ total_rows = 0
  /\ eof = FALSE
  /\ prebuilt_usage_counts = EmptyMap
  /\ lib = <<>>
  /\ glyph_cells = <<>>
  /\ active_glyph_cells = <<>>
  /\ adv_x = 0
  /\ adv_y = 0
  /\ prebuilt_combined_cells_map = EmptyMap
  /\ top = 0
  /\ rows_to_process = None
  /\ y = 0
  /\ row = 0
  /\ line = <<>>
  /\ row_cell = 0
  /\ xx = 0
  /\ s = <<>>
  /\ rows_done = 0
  /\ written = <<>>
  /\ error = NoError
  /\ summary = NoSummary
  /\ pc = "idle"

main_vars ==
  <<args, font, text, fin, part, total_rows, eof, prebuilt_usage_counts, lib,
    glyph_cells, active_glyph_cells, adv_x, adv_y, prebuilt_combined_cells_map,
    top, rows_to_process, y, row, line, row_cell, xx, s, rows_done, written,
    error, summary, pc>>

\* _SUFFIX_CHARS: 0-9, A-Z
SUFFIX_CHARS == DIGITS \o LETTERS

\* _lead_to_str(lead); a lead holds the 0-based letter numbers.
_lead_to_str(lead) == [i \in DOMAIN lead |-> LETTERS[lead[i] + 1]]

\* The carry loop over the lead, from its 1-based position i leftwards:
\* the lead it leaves and whether the carry is still pending.
RECURSIVE CarryLoop(_, _)
CarryLoop(lead, i) ==
  IF i >= 1
    THEN IF lead[i] < 25
           THEN <<[lead EXCEPT ![i] = lead[i] + 1], FALSE>>
           ELSE CarryLoop([lead EXCEPT ![i] = 0], i - 1)
    ELSE <<lead, TRUE>>

\* The name one call of the test's next_cell_name returns.
TestName(lead, suffix) ==
  IF suffix # None THEN _lead_to_str(lead) \o <<SUFFIX_CHARS[suffix + 1]>>
  ELSE _lead_to_str(lead)

\* The lead and the suffix one call of the test's next_cell_name leaves.
TestAdvance(lead, suffix) ==
  IF suffix = None
    THEN IF Len(lead) = 1 /\ lead[1] < 25
           THEN <<[lead EXCEPT ![1] = lead[1] + 1], suffix>>
           ELSE <<(<<0>>), 0>>
    ELSE IF suffix + 1 >= Len(SUFFIX_CHARS)
           THEN LET r == CarryLoop(lead, Len(lead))
                IN IF r[2] THEN <<[i \in 1..(Len(lead) + 1) |-> 0], 0>>
                   ELSE <<r[1], 0>>
           ELSE <<lead, suffix + 1>>

\* The test module just imported, next to a fresh text_to_gds.
InitTestNames ==
  /\ MainIdle
  /\ test_names = [pc |-> "main", NAME_STATE_LEAD |-> <<0>>,
                   NAME_STATE_SUFFIX |-> None, name |-> <<>>, calls |-> 0]
  /\ bitpack = Idle
  /\ grid = Idle
  /\ scores = Idle

\* reset_cell_name_sequence("A")
reset_cell_name_sequence ==
  /\ test_names.pc = "main"
  /\ test_names' = [test_names EXCEPT !.pc = "next_cell_name",
                                      !.NAME_STATE_LEAD = <<0>>,
                                      !.NAME_STATE_SUFFIX = None]
  /\ UNCHANGED <<main_vars, value, bitpack, grid, scores>>

\* The n-th call of the test's next_cell_name, next to the n-th call of
\* text_to_gds.next_cell_name.
NthNames ==
  /\ test_names.pc = "next_cell_name"
  /\ test_names.calls < MaxCalls
  /\ \E r \in {TestAdvance(test_names.NAME_STATE_LEAD, test_names.NAME_STATE_SUFFIX)} :
       test_names' = [test_names EXCEPT
                        !.name = TestName(test_names.NAME_STATE_LEAD,
                                          test_names.NAME_STATE_SUFFIX),
                        !.NAME_STATE_LEAD = r[1],
                        !.NAME_STATE_SUFFIX = r[2],
                        !.calls = test_names.calls + 1]
  /\ value' = increment_gds_name(value)
  /\ UNCHANGED <<main_vars, bitpack, grid, scores>>

NextTestNames ==
  \/ reset_cell_name_sequence
  \/ NthNames

SpecTestNames == InitTestNames /\ [][NextTestNames]_vars

\* --------------------------------------------------------- bitpack_ones.py
\* ASCII_ONE; a byte of the input file is modelled by its character.
ASCII_ONE == "1"

\* 1 if b == ASCII_ONE else 0
BitOf(b) == IF b = ASCII_ONE THEN 1 ELSE 0

\* pack_chunk_to_bits: the for loop from byte i of the chunk on, then the
\* padding of the leftover bits.
RECURSIVE PackChunkLoop(_, _, _, _, _)
PackChunkLoop(chunk, i, out, bit_acc, bit_count) ==
  IF i <= Len(chunk)
    THEN LET acc == bit_acc * 2 + BitOf(chunk[i])
         IN IF bit_count + 1 = 8
              THEN PackChunkLoop(chunk, i + 1, Append(out, acc), 0, 0)
              ELSE PackChunkLoop(chunk, i + 1, out, acc, bit_count + 1)
    ELSE IF bit_count # 0
           THEN Append(out, bit_acc * 2 ^ (8 - bit_count))
           ELSE out

pack_chunk_to_bits(chunk) == PackChunkLoop(chunk, 1, <<>>, 0, 0)

\* The input files of the packer: every byte string over two byte values up
\* to a length.
PackInputs == UNION {[1..n -> {"0", "1"}] : n \in 0..MaxPackLen}

\* stream_pack(input_fp, output_fp, chunk_size) about to start.
InitBitpack ==
  /\ MainIdle
  /\ \E input \in PackInputs, chunk_size \in 1..MaxChunkSize :
       bitpack = [pc |-> "read", input |-> input, input_fp |-> input,
                  chunk_size |-> chunk_size, chunk |-> <<>>,
                  bit_acc |-> 0, bit_count |-> 0, output_fp |-> <<>>,
                  total_in |-> 0, total_out |-> 0]
  /\ test_names = Idle
  /\ grid = Idle
  /\ scores = Idle

\* Fault variant of ReadChunk: the bits left over from the previous chunk are
\* padded and written before the next chunk is packed, as if every chunk
\* were packed on its own.
ReadChunkPacksAlone ==
  /\ bitpack.pc = "read"
  /\ LET chunk == Take(bitpack.input_fp, bitpack.chunk_size)
         flush == bitpack.bit_count # 0
         out == IF flush
                  THEN Append(bitpack.output_fp,
                              bitpack.bit_acc * 2 ^ (8 - bitpack.bit_count))
                  ELSE bitpack.output_fp
     IN IF chunk = <<>>
          THEN bitpack' = [bitpack EXCEPT !.pc = "pad"]
          ELSE bitpack' = [bitpack EXCEPT
                             !.pc = "for",
                             !.chunk = chunk,
                             !.input_fp = DropFirst(bitpack.input_fp, Len(chunk)),
                             !.output_fp = out,
                             !.bit_acc = IF flush THEN 0 ELSE bitpack.bit_acc,
                             !.bit_count = IF flush THEN 0 ELSE bitpack.bit_count,
                             !.total_in = bitpack.total_in + Len(chunk)]
  /\ UNCHANGED <<main_vars, value, test_names, grid, scores>>

\* chunk = input_fp.read(chunk_size); the loop ends at an empty chunk.
ReadChunk ==
  /\ bitpack.pc = "read"
  /\ LET chunk == Take(bitpack.input_fp, bitpack.chunk_size)
     IN IF chunk = <<>>
          THEN bitpack' = [bitpack EXCEPT !.pc = "pad"]
          ELSE bitpack' = [bitpack EXCEPT
                             !.pc = "for",
                             !.chunk = chunk,
                             !.input_fp = DropFirst(bitpack.input_fp, Len(chunk)),
                             !.total_in = bitpack.total_in + Len(chunk)]
  /\ UNCHANGED <<main_vars, value, test_names, grid, scores>>

\* One pass of "for b in chunk"; after the last byte the next chunk is read.
PackByte ==
  /\ bitpack.pc = "for"
  /\ LET b == bitpack.chunk[1]
         rest == DropFirst(bitpack.chunk, 1)
         acc == bitpack.bit_acc * 2 + BitOf(b)
         full == bitpack.bit_count + 1 = 8
     IN bitpack' = [bitpack EXCEPT
                      !.pc = IF rest = <<>> THEN "read" ELSE "for",
                      !.chunk = rest,
                      !.bit_acc = IF full THEN 0 ELSE acc,
                      !.bit_count = IF full THEN 0 ELSE bitpack.bit_count + 1,
                      !.output_fp = IF full THEN Append(bitpack.output_fp, acc)
                                    ELSE bitpack.output_fp,
                      !.total_out = IF full THEN bitpack.total_out + 1
                                    ELSE bitpack.total_out]
  /\ UNCHANGED <<main_vars, value, test_names, grid, scores>>

\* After the loop: the leftover bits are padded with zeros and written.
PadLastByte ==
  /\ bitpack.pc = "pad"
  /\ bitpack' =
       IF bitpack.bit_count # 0
         THEN [bitpack EXCEPT
                 !.pc = "done",
                 !.bit_acc = bitpack.bit_acc * 2 ^ (8 - bitpack.bit_count),
                 !.output_fp = Append(bitpack.output_fp,
                                      bitpack.bit_acc * 2 ^ (8 - bitpack.bit_count)),
                 !.total_out = bitpack.total_out + 1]
         ELSE [bitpack EXCEPT !.pc = "done"]
  /\ UNCHANGED <<main_vars, value, test_names, grid, scores>>

NextBitpack ==
  \/ ReadChunk
  \/ PackByte
  \/ PadLastByte

SpecBitpack == InitBitpack /\ [][NextBitpack]_vars

\* ------------------------------------------------------ format_into_grid.py
BLOCK_H_PADDING == <<" ", " ", " ">>

BLOCK_V_PADDING == <<"\n">>

\* The digit files: a number of digits; which digits they are plays no role.
GridFiles == {[i \in 1..n |-> "3"] : n \in 0..MaxGridFileLen}

\* process_file(filename, max_rows) with the file just opened.
InitGrid ==
  /\ MainIdle
  /\ \E file \in GridFiles, max_rows \in {None} \cup (0..MaxGridRows) :
       grid = [pc |-> "block_x", file |-> file, max_rows |-> max_rows,
               row_number |-> 0, block_y |-> 0, row_in_block |-> 0,
               block_x |-> 0, stdout |-> <<>>]
  /\ test_names = Idle
  /\ bitpack = Idle
  /\ scores = Idle

\* One pass of the block_x loop: a block row is read and printed with its
\* padding.
PrintBlockRow ==
  /\ grid.pc = "block_x"
  /\ grid.block_x < BLOCK_COUNT_X
  /\ LET block_row == Take(grid.file, BLOCK_SIZE_X)
     IN grid' = [grid EXCEPT
                   !.file = DropFirst(grid.file, Len(block_row)),
                   !.stdout = grid.stdout \o block_row \o BLOCK_H_PADDING,
                   !.block_x = grid.block_x + 1]
  /\ UNCHANGED <<main_vars, value, test_names, bitpack, scores>>

\* After the block_x loop: the row's newline is printed and the row counted;
\* at the row limit the row_in_block loop is left with break, otherwise it
\* goes on to its next pass or ends.
EndRow ==
  /\ grid.pc = "block_x"
  /\ grid.block_x = BLOCK_COUNT_X
  /\ LET row_number == grid.row_number + 1
         break == grid.max_rows # None /\ grid.max_rows # 0
                    /\ row_number >= grid.max_rows
         last == grid.row_in_block + 1 = BLOCK_SIZE_Y
     IN grid' = [grid EXCEPT
                   !.stdout = grid.stdout \o <<"\n">>,
                   !.row_number = row_number,
                   !.block_x = 0,
                   !.row_in_block = IF break \/ last THEN grid.row_in_block
                                    ELSE grid.row_in_block + 1,
                   !.pc = IF break \/ last THEN "block_y" ELSE "block_x"]
  /\ UNCHANGED <<main_vars, value, test_names, bitpack, scores>>

\* After the row_in_block loop: the vertical padding is printed and the
\* block_y loop goes on to its next pass or ends.
EndBlock ==
  /\ grid.pc = "block_y"
  /\ grid' = [grid EXCEPT
                !.stdout = grid.stdout \o BLOCK_V_PADDING,
                !.row_in_block = 0,
                !.block_y = IF grid.block_y + 1 = BLOCK_COUNT_Y THEN grid.block_y
                            ELSE grid.block_y + 1,
                !.pc = IF grid.block_y + 1 = BLOCK_COUNT_Y THEN "done"
                       ELSE "block_x"]
  /\ UNCHANGED <<main_vars, value, test_names, bitpack, scores>>

NextGrid ==
  \/ PrintBlockRow
  \/ EndRow
  \/ EndBlock

SpecGrid == InitGrid /\ [][NextGrid]_vars

\* ----------------------------------------------------------- block_scores.py
\* BLOCK_BITS, for the scaled-down BLOCK_BYTES.
BLOCK_BITS == BLOCK_BYTES * 8

\* POPCOUNT[x]: the number of 1 bits of the byte x.
RECURSIVE POPCOUNT(_)
POPCOUNT(x) == IF x = 0 THEN 0 ELSE (x % 2) + POPCOUNT(x \div 2)

\* sum(mv[b] for b in block)
RECURSIVE Ones(_)
Ones(block) ==
  IF block = <<>> THEN 0 ELSE POPCOUNT(block[1]) + Ones(DropFirst(block, 1))

\* The score the loop computes for a block.
Score(block) ==
  LET ones == Ones(block)
      zeros == BLOCK_BITS - ones
  IN (ones * 2) + (zeros * 4)

\* The bit-packed input files: byte strings over three byte values.
ScoreFiles == UNION {[1..n -> {0, 7, 255}] : n \in 0..MaxScoreFileLen}

\* stream_block_scores(fp, blocks) about to start.
InitScores ==
  /\ MainIdle
  /\ \E file \in ScoreFiles, blocks \in 0..MaxBlocks :
       scores = [pc |-> "while", file |-> file, fp |-> file, blocks |-> blocks,
                 blocks_done |-> 0, max_score |-> None, stdout |-> <<>>,
                 stderr |-> <<>>]
  /\ test_names = Idle
  /\ bitpack = Idle
  /\ grid = Idle

\* One pass of the while loop: a block is read; a short read ends the loop,
\* a full block is scored and the maximum kept.
ReadBlock ==
  /\ scores.pc = "while"
  /\ scores.blocks_done < scores.blocks
  /\ LET block == Take(scores.fp, BLOCK_BYTES)
         rest == DropFirst(scores.fp, Len(block))
         score == Score(block)
     IN IF Len(block) < BLOCK_BYTES
          THEN scores' = [scores EXCEPT !.pc = "print", !.fp = rest]
          ELSE scores' = [scores EXCEPT
                            !.fp = rest,
                            !.max_score =
                              IF scores.max_score = None \/ score > scores.max_score
                                THEN score ELSE scores.max_score,
                            !.blocks_done = scores.blocks_done + 1]
  /\ UNCHANGED <<main_vars, value, test_names, bitpack, grid>>

\* The while test fails: the requested number of blocks is done.
BlocksDone ==
  /\ scores.pc = "while"
  /\ ~(scores.blocks_done < scores.blocks)
  /\ scores' = [scores EXCEPT !.pc = "print"]
  /\ UNCHANGED <<main_vars, value, test_names, bitpack, grid>>

\* After the loop: the maximum score is printed, or a message if there is
\* none; blocks_done is returned.
PrintMaxScore ==
  /\ scores.pc = "print"
  /\ scores' =
       IF scores.max_score # None
         THEN [scores EXCEPT !.pc = "done",
                             !.stdout = Append(scores.stdout, scores.max_score)]
         ELSE [scores EXCEPT
                 !.pc = "done",
                 !.stderr = Append(scores.stderr,
                                   "No full blocks processed; cannot compute maximum score.")]
  /\ UNCHANGED <<main_vars, value, test_names, bitpack, grid>>

NextScores ==
  \/ ReadBlock
  \/ BlocksDone
  \/ PrintMaxScore

SpecScores == InitScores /\ [][NextScores]_vars

\* ------------------------------------------------------------------ claims
DigitChars == {DIGITS[i] : i \in DOMAIN DIGITS}

\* C1: in every state of every part, and so in every library handed to
\* write_gds, the names of the library's cells (pixel, glyph, merged glyph,
\* digit-string, row cells and TOP_CELL) are pairwise distinct and none is
\* empty or begins with a digit.
C1_NamesDistinctAndLegal ==
  /\ Cardinality({lib[i].name : i \in DOMAIN lib}) = Len(lib)
  /\ \A i \in DOMAIN lib : lib[i].name # <<>> /\ lib[i].name[1] \notin DigitChars

\* C1 witness: a second part with merged glyphs, prebuilt cells, a row and
\* two-character names is about to be written.
C1_Witness ==
  /\ pc = "write"
  /\ part >= 2
  /\ args.merge
  /\ \E i \in DOMAIN lib : lib[i].kind = "digits"
  /\ \E i \in DOMAIN lib : lib[i].kind = "row" /\ Len(lib[i].name) >= 2

RowCellRefs == lib[row_cell].references

\* Whether the next combined-string-length characters of s exist and are a
\* key of the dictionary.
NextIsKey ==
  /\ Len(s) >= args.prebuilt_digits_len
  /\ SubSeq(s, 1, args.prebuilt_digits_len) \in DOMAIN prebuilt_combined_cells_map

\* One step of row compilation at a non-empty rest s: a key emits exactly one
\* dictionary placement at the cursor and skips the whole key; anything else
\* consumes exactly one character by the fallback, or fails on it.
GreedyStep ==
  (pc = "row_to_cell" /\ Len(s) > 0) =>
    LET len == args.prebuilt_digits_len
        after == lib'[row_cell].references
    IN IF NextIsKey
         THEN /\ after = Append(RowCellRefs,
                           Reference(prebuilt_combined_cells_map[SubSeq(s, 1, len)],
                                     xx, 0))
              /\ lib[after[Len(after)].cell[2]].kind = "digits"
              /\ s' = SubSeq(s, len + 1, Len(s))
              /\ xx' = xx + len * adv_x
              /\ pc' = "row_to_cell"
         ELSE \/ /\ pc' = "failed"
                 /\ s[1] # " "
                 /\ ~DictHas(active_glyph_cells, s[1])
                 /\ after = RowCellRefs
              \/ /\ pc' = "row_to_cell"
                 /\ s' = Tail(s)
                 /\ xx' = xx + adv_x
                 /\ after = IF s[1] = " "
                              THEN RowCellRefs
                              ELSE Append(RowCellRefs,
                                     Reference(DictGet(active_glyph_cells, s[1]),
                                               xx, 0))

\* The two rows of the scenario examples, for length 2: two keys side by
\* side, and a key followed by one fallback digit.
GreedyExamples ==
  (pc = "write" /\ args.prebuilt_digits_len = 2) =>
    /\ line = <<"0", "1", "1", "0">> =>
         RowCellRefs =
           <<Reference(prebuilt_combined_cells_map[<<"0", "1">>], 0, 0),
             Reference(prebuilt_combined_cells_map[<<"1", "0">>], 2 * adv_x, 0)>>
    /\ line = <<"0", "1", "1">> =>
         RowCellRefs =
           <<Reference(prebuilt_combined_cells_map[<<"0", "1">>], 0, 0),
             Reference(DictGet(active_glyph_cells, "1"), 2 * adv_x, 0)>>

\* C3: row compilation is a greedy, non-overlapping, left-to-right match of
\* fixed length: every step at a key emits one dictionary placement and
\* advances by the key, every other step consumes one character by the
\* fallback, and nothing is retried or undone; the example rows compile as
\* stated.
C3_GreedyFixedLengthMatch == [][GreedyStep]_vars /\ []GreedyExamples

\* C3 witness: the row "011" was compiled with length 2 into one dictionary
\* placement and one fallback placement.
C3_Witness ==
  /\ pc = "write"
  /\ args.prebuilt_digits_len = 2
  /\ line = <<"0", "1", "1">>
  /\ Len(RowCellRefs) = 2
  /\ lib[RowCellRefs[1].cell[2]].kind = "digits"
  /\ lib[RowCellRefs[2].cell[2]].kind = "glyph"

\* C4: when row_to_cell has consumed the whole row, the cursor stands at
\* advance_x times the number of non-newline characters of the line.
C4_AdvanceConservation ==
  (pc = "row_to_cell" /\ s = <<>>) =>
    xx = adv_x * Cardinality({i \in DOMAIN line : line[i] # "\n"})

\* C4 witness: a row with a dictionary match, a space and a fallback glyph
\* was consumed completely.
C4_Witness ==
  /\ pc = "row_to_cell"
  /\ s = <<>>
  /\ args.prebuilt_digits_len = 2
  /\ line = <<"0", "1", " ", "1">>
  /\ Len(RowCellRefs) = 2
  /\ xx = 4 * adv_x

\* Whether main returned for a run with a per-part limit k >= 1, no overall
\* limit and at least one input line.
SplitRunDone ==
  /\ pc = "done"
  /\ args.rows_per_file # None
  /\ args.rows_per_file >= 1
  /\ args.rows = None
  /\ Len(text) >= 1

\* Whether exactly c artifacts were written, the first c-1 with k rows and
\* the last with n - k*(c-1) rows.
PartsAre(c, k, n) ==
  /\ Len(written) = c
  /\ \A i \in 1..c : written[i].rows = IF i < c THEN k ELSE n - k * (c - 1)

\* C5 as stated: ceil(n/k) artifacts are written.
C5_CeilingParts ==
  SplitRunDone =>
    PartsAre((Len(text) + args.rows_per_file - 1) \div args.rows_per_file,
             args.rows_per_file, Len(text))

\* C5 amended: floor(n/k) + 1 artifacts are written, floor(n/k) of them with
\* k rows and a last one with n mod k rows, which is empty when k divides n.
C5_FloorPlusOneParts ==
  SplitRunDone =>
    PartsAre((Len(text) \div args.rows_per_file) + 1,
             args.rows_per_file, Len(text))

\* C5 witness: two lines with a limit of two rows gave a full part and an
\* empty one.
C5_Witness ==
  /\ SplitRunDone
  /\ args.rows_per_file = 2
  /\ Len(text) = 2
  /\ Len(written) = 2
  /\ written[1].rows = 2
  /\ written[2].rows = 0

\* C6: when an error ends the run while part k is being built, nothing was
\* written for part k, and the parts 1..k-1 were each written once, to paths
\* of their own.
C6_FailedPartNotWritten ==
  /\ \A i \in DOMAIN written : written[i].part = i
  /\ \A i, j \in DOMAIN written : i # j => written[i].path # written[j].path
  /\ pc = "failed" => Len(written) = part - 1

\* C6 witness: a missing glyph ended the run in a row of the second part,
\* after the first part was written.
C6_Witness ==
  /\ pc = "failed"
  /\ part = 2
  /\ Len(written) = 1
  /\ s # <<>>

\* C7: for a length L >= 1 the map returned by build_digit_string_cells_map
\* has exactly 10^L entries, one per string of L digits, each a cell of its
\* own with L references, the j-th (from 0) to the glyph of the key's j-th
\* digit at x = j * advance_x.
C7_DictionaryComplete ==
  (pc = "top" /\ args.prebuilt_digits_len >= 1) =>
    LET len == args.prebuilt_digits_len
        m == prebuilt_combined_cells_map
    IN /\ Cardinality(DOMAIN m) = 10 ^ len
       /\ DOMAIN m = [1..len -> DigitChars]
       /\ Cardinality({m[key] : key \in DOMAIN m}) = 10 ^ len
       /\ Cardinality({i \in DOMAIN lib : lib[i].kind = "digits"}) = 10 ^ len
       /\ \A key \in DOMAIN m :
            /\ m[key][1] = part
            /\ lib[m[key][2]].kind = "digits"
            /\ lib[m[key][2]].references =
                 [j \in 1..len |->
                    Reference(DictGet(active_glyph_cells, key[j]),
                              (j - 1) * adv_x, 0)]

\* C7 witness: the map for length 2 was returned and holds the key "07".
C7_Witness ==
  /\ pc = "top"
  /\ args.prebuilt_digits_len = 2
  /\ <<"0", "7">> \in DOMAIN prebuilt_combined_cells_map

\* C8 as stated: for length 0 the returned map has no entry and no
\* digit-string cell was created.
C8_EmptyAtLengthZero ==
  (pc = "top" /\ args.prebuilt_digits_len = 0) =>
    /\ DOMAIN prebuilt_combined_cells_map = {}
    /\ \A i \in DOMAIN lib : lib[i].kind # "digits"

\* The references the fallback alone gives for the characters from..upto of
\* a line: one per non-space character, at its column.
RECURSIVE FallbackRefs(_, _, _)
FallbackRefs(str, from, upto) ==
  IF from > upto THEN <<>>
  ELSE (IF str[from] = " " THEN <<>>
        ELSE <<Reference(DictGet(active_glyph_cells, str[from]),
                         (from - 1) * adv_x, 0)>>)
         \o FallbackRefs(str, from + 1, upto)

\* C9: with length 0 every character is handled by the fallback: the row
\* cell holds one glyph reference per non-space character consumed and none
\* per space, no row references a digit-string cell, and no usage is counted.
C9_FallbackOnlyAtLengthZero ==
  args.prebuilt_digits_len = 0 =>
    /\ DOMAIN prebuilt_usage_counts = {}
    /\ \A ij \in RowRefs(lib) :
         lib[RefTarget(lib, ij)[2]].kind \in {"glyph", "merged"}
    /\ pc = "row_to_cell" =>
         RowCellRefs = FallbackRefs(line, 1, Len(line) - Len(s))

\* C9 witness: with length 0 a row with the digit 0, a space and another
\* digit was compiled.
C9_Witness ==
  /\ args.prebuilt_digits_len = 0
  /\ pc = "write"
  /\ line = <<"0", " ", "1">>
  /\ Len(RowCellRefs) = 2

RECURSIVE SumTo(_, _)
\* f(1) + ... + f(n)
SumTo(f(_), n) == IF n = 0 THEN 0 ELSE f(n) + SumTo(f, n - 1)

\* Whether the current library has not been written.
Unwritten == part > Len(written)

\* The count of a key in the usage counters.
UsageOf(key) ==
  IF MapHas(prebuilt_usage_counts, key) THEN prebuilt_usage_counts[key] ELSE 0

\* The dictionary placements of a key in all parts so far.
PlacementsOf(key) ==
  LET inPart(i) == IF key \in DOMAIN written[i].dict_refs
                     THEN written[i].dict_refs[key] ELSE 0
  IN SumTo(inPart, Len(written))
       + (IF Unwritten /\ MapHas(prebuilt_combined_cells_map, key)
            THEN RefCount(lib, prebuilt_combined_cells_map[key]) ELSE 0)

\* The characters and the spaces the row compiler has consumed so far.
LinesRead == Len(text) - Len(fin)

Spaces(str) == Cardinality({i \in DOMAIN str : str[i] = " "})

ConsumedChars ==
  LET len(i) == Len(StripNewline(text[i])) IN SumTo(len, LinesRead) - Len(s)

ConsumedSpaces ==
  LET sp(i) == Spaces(text[i]) IN SumTo(sp, LinesRead) - Spaces(s)

\* The fallback glyph placements in all parts so far.
GlyphPlacements ==
  LET inPart(i) == written[i].glyph_refs
  IN SumTo(inPart, Len(written)) + (IF Unwritten THEN GlyphRefCount(lib) ELSE 0)

TotalUsage ==
  LET keys == DOMAIN prebuilt_usage_counts
      RECURSIVE sum(_)
      sum(S) == IF S = {} THEN 0
                ELSE LET k == CHOOSE x \in S : TRUE
                     IN prebuilt_usage_counts[k] + sum(S \ {k})
  IN sum(keys)

\* C10: at every moment of a run the counter of every key equals the number
\* of dictionary placements of that key in all parts so far, and the sum of
\* the counters times the length equals the characters consumed other than
\* by the fallback.
C10_UsageIsGlobalAndAdditive ==
  /\ \A key \in DOMAIN prebuilt_usage_counts \cup DOMAIN prebuilt_combined_cells_map :
       UsageOf(key) = PlacementsOf(key)
  /\ TotalUsage * args.prebuilt_digits_len
       = ConsumedChars - ConsumedSpaces - GlyphPlacements

\* C10 witness: the key "1" was placed in a written part and again in the
\* part being built.
C10_Witness ==
  /\ Len(written) >= 1
  /\ Unwritten
  /\ <<"1">> \in DOMAIN written[1].dict_refs
  /\ MapHas(prebuilt_combined_cells_map, <<"1">>)
  /\ RefCount(lib, prebuilt_combined_cells_map[<<"1">>]) >= 1
  /\ UsageOf(<<"1">>) >= 2

\* C11 as stated: a run that ends writes at least one artifact whenever a
\* global row limit > 0 is given or the input is not empty.
C11_ArtifactIfLimitOrInput ==
  (pc = "done" /\ ((args.rows # None /\ args.rows > 0) \/ text # <<>>)) =>
    Len(written) >= 1

\* C11 amended: when main returns, every part it opened was written, with
\* or without rows, and at least one part was opened exactly when no global
\* row limit was given or the limit is greater than 0, whatever the input.
C11_EveryOpenedPartWritten ==
  /\ pc \in {"while", "done"} => Len(written) = part
  /\ pc = "done" => (Len(written) >= 1 <=> (args.rows = None \/ args.rows > 0))

\* C11 witness: main returned for an empty input and no limits, having
\* written one part without rows.
C11_Witness ==
  /\ pc = "done"
  /\ text = <<>>
  /\ args.rows = None
  /\ Len(written) = 1
  /\ written[1].rows = 0

\* C12 as stated: with a per-part row limit configured, 0 included, no
\* written part holds more rows than the limit.
C12_AtMostRowsPerFile ==
  args.rows_per_file # None =>
    \A i \in DOMAIN written : written[i].rows <= args.rows_per_file

\* The rows compiled so far over all parts: the rows of the written parts and
\* the row cells of the part being built.
RowsCompiled ==
  LET inPart(i) == written[i].rows
  IN SumTo(inPart, Len(written))
       + (IF Unwritten
            THEN Cardinality({i \in DOMAIN lib : lib[i].kind = "row"})
            ELSE 0)

\* C13: with an overall row limit the rows compiled over all parts never
\* exceed it, with or without a per-part limit, and a part is open only if
\* the total was below the limit when it was opened.
C13_RowsWithinOverallLimit ==
  args.rows # None =>
    /\ RowsCompiled <= args.rows
    /\ total_rows <= args.rows
    /\ (Unwritten /\ part >= 1) => total_rows < args.rows

\* C13 witness: main returned after one row of a two-line text, stopped by
\* an overall limit of 1 with a line left unread.
C13_Witness ==
  /\ pc = "done"
  /\ args.rows = 1
  /\ Len(text) = 2
  /\ Len(fin) = 1
  /\ total_rows = 1
  /\ RowsCompiled = 1

\* Whether cell identity c names a cell of the current part's library.
InThisPart(c) == c[1] = part /\ c[2] \in DOMAIN lib

\* C14: every reference of the current part's library points at a cell
\* created for this part and held by this library, and from the moment they
\* are assigned in a part the glyph map, the active (merged or plain) glyph
\* map and the digit-string map hold cells of this part only.
C14_PartsHermetic ==
  /\ \A i \in DOMAIN lib : \A j \in DOMAIN lib[i].references :
       InThisPart(lib[i].references[j].cell)
  /\ pc \in {"merge", "digits", "top", "for_line", "row_to_cell", "write"} =>
       \A k \in DOMAIN glyph_cells : InThisPart(glyph_cells[k][2])
  /\ pc \in {"digits", "top", "for_line", "row_to_cell", "write"} =>
       \A k \in DOMAIN active_glyph_cells : InThisPart(active_glyph_cells[k][2])
  /\ pc \in {"top", "for_line", "row_to_cell", "write"} =>
       \A key \in DOMAIN prebuilt_combined_cells_map :
         InThisPart(prebuilt_combined_cells_map[key])

\* C14 witness: the second part of a run with --merge is about to be
\* written, with a row that references a digit-string cell.
C14_Witness ==
  /\ pc = "write"
  /\ part = 2
  /\ args.merge
  /\ \E i \in DOMAIN lib :
       /\ lib[i].kind = "row"
       /\ \E j \in DOMAIN lib[i].references :
            lib[lib[i].references[j].cell[2]].kind = "digits"

\* The cells of library l that some reference of l points at.
Incoming(l) ==
  UNION {{l[i].references[j].cell[2] : j \in DOMAIN l[i].references} :
           i \in DOMAIN l}

\* The cells of library l reached from the cells S by at most n references.
RECURSIVE Reach(_, _, _)
Reach(l, S, n) ==
  IF n = 0 THEN S
  ELSE Reach(l,
             S \cup UNION {{l[i].references[j].cell[2] :
                              j \in DOMAIN l[i].references} : i \in S},
             n - 1)

\* C15 as stated: in a part about to be written TOP_CELL is the only cell
\* without an incoming reference and every cell is reached from it (a
\* reference path has at most four steps: top, row, digit string, glyph,
\* pixel).
C15_RootedAtTop ==
  pc = "write" =>
    /\ {i \in DOMAIN lib : i \notin Incoming(lib)} = {top}
    /\ Reach(lib, {top}, 4) = DOMAIN lib

\* The kinds of cell a cell of a given kind may reference.
MayReference(kind) ==
  CASE kind = "top" -> {"row"}
    [] kind = "row" -> {"digits", "glyph", "merged"}
    [] kind = "digits" -> {"glyph", "merged"}
    [] kind = "glyph" -> {"pixel"}
    [] OTHER -> {}

\* The level of a kind of cell: every allowed reference goes down.
Level(kind) ==
  CASE kind = "top" -> 4
    [] kind = "row" -> 3
    [] kind = "digits" -> 2
    [] kind \in {"glyph", "merged"} -> 1
    [] OTHER -> 0

\* C16: in every state the references of the current library go from the
\* top cell to row cells, from row cells to digit-string or glyph cells
\* (merged or not), from digit-string cells to glyph cells and from glyph
\* cells to the pixel cell, so each reference goes to a strictly lower level
\* and there is no cycle.
C16_ReferencesLayered ==
  \A i \in DOMAIN lib : \A j \in DOMAIN lib[i].references :
    LET target == lib[lib[i].references[j].cell[2]]
    IN /\ target.kind \in MayReference(lib[i].kind)
       /\ Level(target.kind) < Level(lib[i].kind)

\* C16 witness: a library with --merge about to be written, with the chain
\* top -> row -> digit string -> merged glyph and a glyph -> pixel reference.
C16_Witness ==
  /\ pc = "write"
  /\ args.merge
  /\ lib[top].references # <<>>
  /\ \E i \in DOMAIN lib :
       /\ lib[i].kind = "row"
       /\ \E j \in DOMAIN lib[i].references :
            LET d == lib[lib[i].references[j].cell[2]]
            IN /\ d.kind = "digits"
               /\ d.references # <<>>
               /\ lib[d.references[1].cell[2]].kind = "merged"
  /\ \E i \in DOMAIN lib :
       /\ lib[i].kind = "glyph"
       /\ lib[i].references # <<>>
       /\ lib[lib[i].references[1].cell[2]].kind = "pixel"

\* Whether sub occurs in seq as a contiguous piece.
Contains(seq, sub) ==
  \E i \in 0..(Len(seq) - Len(sub)) : SubSeq(seq, i + 1, i + Len(sub)) = sub

\* Whether main was ended by row_to_cell's missing-glyph error.
MissingGlyphFailure ==
  /\ pc = "failed"
  /\ error.message # <<>>
  /\ error.message[1] = "Missing glyph in font for character: "

\* C17 as stated: the missing-glyph error of a row names the offending
\* character and the row and the column where it stands (counted from 0 or
\* from 1).
C17_ErrorNamesCharAndPosition ==
  MissingGlyphFailure =>
    /\ Contains(error.message, Repr(s[1]))
    /\ \E base \in {0, 1} :
         /\ Contains(error.message, Decimal(total_rows + row + base))
         /\ Contains(error.message, Decimal(Len(line) - Len(s) + base))

\* One step from the call of build_digit_string_cells_map with a glyph dict
\* that lacks a digit: it ends main with the error naming the missing
\* digits, and leaves the library, the name generator and the map alone.
MissingDigitsStep ==
  (pc = "digits" /\ \E d \in DigitChars : ~DictHas(active_glyph_cells, d)) =>
    /\ pc' = "failed"
    /\ error' = MissingDigitsError(active_glyph_cells)
    /\ error'.message[1] = "Missing glyphs for digits: "
    /\ lib' = lib
    /\ value' = value
    /\ prebuilt_combined_cells_map' = prebuilt_combined_cells_map

\* C18: for every length, 0 included, building the digit-string cells with a
\* glyph dict that lacks any digit fails with the missing-glyphs error, and
\* creates no cell and takes no name.
C18_MissingDigitsFailBeforeBuilding == [][MissingDigitsStep]_vars

\* C18 witness: with length 0 and a font without the digit 9 the build ended
\* main with the error naming '9', the library holding no digit-string cell.
C18_Witness ==
  /\ pc = "failed"
  /\ args.prebuilt_digits_len = 0
  /\ error = ValueError(<<"Missing glyphs for digits: ", "[", "'", "9", "'", "]">>)
  /\ \A i \in DOMAIN lib : lib[i].kind # "digits"
  /\ value = lib[Len(lib)].name

\* C19 as stated, at its start: in a fresh process the first call of
\* next_cell_name (made for the pixel cell of the first part) returns "A"
\* and the second (for the first glyph cell) returns "B".
C19_SequenceStartsAtA ==
  (part = 1 /\ lib # <<>>) =>
    /\ lib[1].name = <<"A">>
    /\ Len(lib) >= 2 => lib[2].name = <<"B">>

\* Whether a name is made of the character "Z" only.
AllZ(name) == \A i \in DOMAIN name : name[i] = "Z"

\* One call of next_cell_name: the name does not get shorter, keeps its
\* length unless it is all "Z", and after n times "Z" it is "A" followed by
\* n times "0".
NameGrowsStep ==
  pc = "next_cell_name" =>
    /\ Len(value') >= Len(value)
    /\ ~AllZ(value) => Len(value') = Len(value)
    /\ AllZ(value) => value' = <<"A">> \o [i \in 1..Len(value) |-> "0"]

PlacedKeys ==
  {k \in UNION {DOMAIN written[i].dict_refs : i \in DOMAIN written} :
     PlacementsOf(k) >= 1}

\* C21: in the usage summary the most-used list is in descending order of
\* count and the least-used list in ascending order of count, keys of equal
\* count are in ascending key order in both, both lists hold each placed key
\* with its count (up to ten of them), and the unique-key total is the
\* number of keys placed at least once.
C21_SummaryRankedDeterministically ==
  (pc = "done" /\ summary.printed) =>
    LET t == summary.top_items
        b == summary.bottom_items
        n == Cardinality(PlacedKeys)
        shown == IF n < 10 THEN n ELSE 10
    IN /\ summary.nonzero_keys = n
       /\ Len(t) = shown
       /\ Len(b) = shown
       /\ \A i \in DOMAIN t : t[i][1] \in PlacedKeys /\ t[i][2] = PlacementsOf(t[i][1])
       /\ \A i \in DOMAIN b : b[i][1] \in PlacedKeys /\ b[i][2] = PlacementsOf(b[i][1])
       /\ \A i, j \in DOMAIN t :
            i < j => \/ t[i][2] > t[j][2]
                     \/ t[i][2] = t[j][2] /\ StrLess(t[i][1], t[j][1])
       /\ \A i, j \in DOMAIN b :
            i < j => \/ b[i][2] < b[j][2]
                     \/ b[i][2] = b[j][2] /\ StrLess(b[i][1], b[j][1])

\* C21 witness: the summary of a run that placed "1" twice and "0" once, so
\* that the most-used list is not in key order.
C21_Witness ==
  /\ pc = "done"
  /\ summary.printed
  /\ summary.top_items = << <<(<<"1">>), 2>>, <<(<<"0">>), 1>> >>
  /\ summary.bottom_items = << <<(<<"0">>), 1>>, <<(<<"1">>), 2>> >>

\* C22 as stated: after every number of calls, the name the test's generator
\* returned last is the name text_to_gds.next_cell_name returned last.
C22_TestGeneratorAgrees ==
  test_names.pc = "next_cell_name" /\ test_names.calls >= 1
    => test_names.name = value

\* Output bit i (from 0, the most significant bit of each byte first).
OutputBit(out, i) == (out[(i \div 8) + 1] \div 2 ^ (7 - (i % 8))) % 2

\* C23: for every input and every chunk size >= 1, stream_pack writes what
\* pack_chunk_to_bits makes of the whole input: ceil(n/8) bytes whose bit i
\* is 1 exactly if input byte i is "1", with zero padding bits in the last
\* byte; it returns the numbers of bytes read and written.
C23_StreamPackEqualsWholePack ==
  bitpack.pc = "done" =>
    LET n == Len(bitpack.input)
        out == bitpack.output_fp
    IN /\ out = pack_chunk_to_bits(bitpack.input)
       /\ Len(out) = (n + 7) \div 8
       /\ \A i \in 0..(n - 1) :
            OutputBit(out, i) = 1 <=> bitpack.input[i + 1] = "1"
       /\ \A i \in n..(8 * Len(out) - 1) : OutputBit(out, i) = 0
       /\ bitpack.total_in = n
       /\ bitpack.total_out = Len(out)

\* C23 witness: nine bytes "1" were packed in chunks of two, so that a chunk
\* boundary lay inside the first output byte and the last byte is padded.
C23_Witness ==
  /\ bitpack.pc = "done"
  /\ bitpack.chunk_size = 2
  /\ bitpack.input = <<"1", "1", "1", "1", "1", "1", "1", "1", "1">>
  /\ bitpack.output_fp = <<255, 128>>

\* C24 as stated: process_file with max_rows = m >= 1 never has more than m
\* rows written.
C24_AtMostMaxRows ==
  (grid.pc # "idle" /\ grid.max_rows # None /\ grid.max_rows >= 1)
    => grid.row_number <= grid.max_rows

\* Block i (from 1) of the bit-packed file.
FileBlock(i) == SubSeq(scores.file, (i - 1) * BLOCK_BYTES + 1, i * BLOCK_BYTES)

\* C25 as stated: when stream_block_scores returns it has processed only full
\* blocks, at most the requested number, and has printed one line per
\* processed block, holding ones + 3 * zeros of that block.
C25_OneScoreLinePerBlock ==
  scores.pc = "done" =>
    /\ scores.blocks_done <= scores.blocks
    /\ scores.blocks_done * BLOCK_BYTES <= Len(scores.file)
    /\ Len(scores.stdout) = scores.blocks_done
    /\ \A i \in DOMAIN scores.stdout :
         scores.stdout[i] = Ones(FileBlock(i)) + 3 * (BLOCK_BITS - Ones(FileBlock(i)))

\* The row cells of a library.
RowCells(l) == {i \in DOMAIN l : l[i].kind = "row"}

\* Where the emitter is: every part but possibly the current one is written,
\* in order and once; after the flush of the current part nothing is being
\* built; a run that returns has written every part.
EmitterPhase ==
  /\ part - 1 <= Len(written)
  /\ Len(written) <= part
  /\ \A i \in DOMAIN written : written[i].part = i
  /\ Len(written) = part => pc \in {"while", "done"}
  /\ pc = "done" => Len(written) = part

\* One step of the emitter.  A flush appends one artifact, that of the
\* current and not yet written part, while no row is being compiled: the
\* line read last is consumed to its end and every row cell is placed under
\* the top cell.  The library changes only while its part is unwritten, and
\* a new library is begun only when the part before it is written.  The
\* row loop is left for the flush only between rows.
EmitterStep ==
  /\ written' # written =>
       /\ Len(written') = Len(written) + 1
       /\ SubSeq(written', 1, Len(written)) = written
       /\ Len(written) = part - 1
       /\ written'[part].rows = Cardinality(RowCells(lib))
       /\ Len(lib[top].references) = Cardinality(RowCells(lib))
       /\ s = <<>>
       /\ lib' = lib /\ part' = part
  /\ lib' # lib =>
       IF part' # part
         THEN part' = part + 1 /\ lib' = <<>> /\ Len(written) = part
         ELSE Len(written) = part - 1 /\ written' = written
  /\ (pc # "write" /\ pc' = "write") =>
       /\ s = <<>> /\ s' = <<>>
       /\ Len(lib'[top].references) = Cardinality(RowCells(lib'))

\* C26: the emitter alternates building and flushing until it is done.
\* Absent errors every opened part is written exactly once, only after all
\* its rows are compiled to their end (the row limit is tested between rows
\* only) and before anything of the next part is created, and nothing is
\* added to a part after its flush.
C26_BuildThenFlush == []EmitterPhase /\ [][EmitterStep]_vars

\* C26 witness: the second part is about to be flushed, with a row compiled,
\* after the first part was written with its row.
C26_Witness ==
  /\ part = 2
  /\ Len(written) = 1
  /\ written[1].rows >= 1
  /\ pc = "write"
  /\ row >= 1

\* Every part that did not end at the end of the input holds at least one
\* row, so the parts are at most one more than the lines of the input.
PartsConsumeLines ==
  /\ \A i \in DOMAIN written : i < Len(written) => written[i].rows >= 1
  /\ (pc = "while" /\ part >= 1 /\ ~eof) => written[part].rows >= 1
  /\ part <= Len(text) + 1

\* C27: for every input and every combination of the two row limits, 0 and
\* absent included, main eventually returns (or fails with an error); every
\* part that does not end at the end of the input consumes at least one
\* line, so there are at most as many parts as lines, plus one.
C27_PartLoopTerminates ==
  /\ <>(pc \in {"done", "failed"})
  /\ []PartsConsumeLines

\* C27 witness: a run over a text of two lines has returned after three
\* parts, the last of them empty.
C27_Witness ==
  /\ pc = "done"
  /\ Len(text) = 2
  /\ part = 3
  /\ written[3].rows = 0

\* The character whose glyph cell (of the active glyph set) is c.
GlyphChar(c) ==
  active_glyph_cells[CHOOSE i \in DOMAIN active_glyph_cells :
                       active_glyph_cells[i][2] = c][1]

\* What a reference of a row cell places: <<x, y, character>> for a glyph
\* cell, and the same for every glyph reference of a digit-string cell,
\* moved by the placement's origin.
ExpandReference(ref) ==
  LET target == lib[ref.cell[2]]
  IN IF target.kind = "digits"
       THEN [j \in DOMAIN target.references |->
               <<ref.origin[1] + target.references[j].origin[1],
                 ref.origin[2] + target.references[j].origin[2],
                 GlyphChar(target.references[j].cell)>>]
       ELSE << <<ref.origin[1], ref.origin[2], GlyphChar(ref.cell)>> >>

\* All the characters a row cell places, in the order of its references.
RECURSIVE ExpandRow(_)
ExpandRow(refs) ==
  IF refs = <<>> THEN <<>>
  ELSE ExpandReference(refs[1]) \o ExpandRow(DropFirst(refs, 1))

\* C28: the placements of a compiled row, expanded to single characters,
\* are exactly the non-space characters of the line, each once, at the
\* column (x / advance_x) of its index in the line, on the row's baseline.
C28_RowReproducesText ==
  (pc \in {"write", "done"} /\ rows_done = 1) =>
    LET placed == ExpandRow(lib[row_cell].references)
        expected == {<<(i - 1) * adv_x, 0, line[i]>> :
                       i \in {j \in DOMAIN line : line[j] # " "}}
    IN /\ {placed[i] : i \in DOMAIN placed} = expected
       /\ Len(placed) = Cardinality(expected)

\* C28 witness: the row "01 1" compiled with a dictionary of two-digit
\* strings: one dictionary placement and one glyph placement.
C28_Witness ==
  /\ pc = "done"
  /\ args.prebuilt_digits_len = 2
  /\ line = <<"0", "1", " ", "1">>
  /\ Len(lib[row_cell].references) = 2
  /\ ExpandRow(lib[row_cell].references) = << <<0, 0, "0">>, <<adv_x, 0, "1">>,
                                              <<3 * adv_x, 0, "1">> >>

\* The rows of the parts written so far.
RowsWritten ==
  LET inPart(i) == written[i].rows IN SumTo(inPart, Len(written))

\* The index in the library of its n-th row cell, in the order of creation.
NthRowCell(l, n) ==
  CHOOSE i \in RowCells(l) : Cardinality({j \in RowCells(l) : j <= i}) = n

C30_PathsDistinct ==
  /\ \A i, j \in DOMAIN written : i # j => written[i].path # written[j].path
  /\ args.rows_per_file # None =>
       \A k \in DOMAIN written :
         k < 10 => written[k].path = <<"out", "_part", "0", "0", DIGITS[k + 1], ".gds">>
  /\ args.rows_per_file = None =>
       /\ Len(written) <= 1
       /\ part <= 1
       /\ \A k \in DOMAIN written : written[k].path = <<"out.gds">>

\* C30 witness: a run with a per-part limit has written three parts.
C30_Witness ==
  /\ args.rows_per_file # None
  /\ Len(written) = 3
  /\ written[3].path = <<"out", "_part", "0", "0", "3", ".gds">>

====
